---- MODULE Spec2Model ----
(***************************************************************************)
(* Distance-vector router of dv.py: a network of Router processes, each    *)
(* with three threads (command loop, periodic advertiser, listener) that   *)
(* share the routing state under one lock, exchanging JSON messages over   *)
(* short TCP connections.                                                  *)
(***************************************************************************)
EXTENDS Integers, Sequences, FiniteSets, TLC

\* ------------------------------------------------------------------ values

\* float('inf'): larger than every finite path sum of the model.
Inf == 1000

\* Python's None as a next hop.
None == 0

\* Node ids of the topology file, in file order (self.nodes).
NodeSeq == <<1, 2, 3>>

Nodes == {NodeSeq[i] : i \in 1..Len(NodeSeq)}

\* Link lines of topology T3: (1,2,2), (2,3,3), (1,3,7).
T3Links == <<(<<1, 2, 2>>), (<<2, 3, 3>>), (<<1, 3, 7>>)>>

\* Link lines of a line topology 1 - 2 - 3, in which node 3 is a leaf.
LineLinks == <<(<<1, 2, 2>>), (<<2, 3, 3>>)>>

\* server_socket.listen(5): pending connections the listener queues.
Backlog == 5

Threads == {"cmd", "per", "lis"}

\* x + y on floats with an absorbing infinity.
Plus(x, y) == IF x = Inf \/ y = Inf THEN Inf ELSE x + y

\* ------------------------------------------------- insertion-ordered dicts

\* A dict is a sequence of <<key, value>> pairs in insertion order.
DKeys(d) == {d[i][1] : i \in 1..Len(d)}

DHas(d, k) == \E i \in 1..Len(d) : d[i][1] = k

DGet(d, k) == d[CHOOSE i \in 1..Len(d) : d[i][1] = k][2]

\* d[k] = v : in place when k is a key, appended otherwise.
DSet(d, k, v) ==
  IF DHas(d, k)
  THEN [i \in 1..Len(d) |-> IF d[i][1] = k THEN <<k, v>> ELSE d[i]]
  ELSE Append(d, <<k, v>>)

\* del d[k] / d.pop(k, None)
DDel(d, k) == SelectSeq(d, LAMBDA e : e[1] # k)

\* self.topology is a defaultdict(dict): topology[a][b] = c creates row a.
TSet(t, a, b, c) ==
  LET row == IF DHas(t, a) THEN DGet(t, a) ELSE <<>>
  IN  DSet(t, a, DSet(row, b, c))

\* A variant that writes one direction only.
TSetOneWay(t, a, b, c) == TSet(t, a, b, c)

\* topology[a][b] = topology[b][a] = c, in this order.
TSetBoth(t, a, b, c) == TSet(TSet(t, a, b, c), b, a, c)

\* The cost of link (a,b) in a topology view, Inf when the view has no entry.
TCost(t, a, b) ==
  IF DHas(t, a) /\ DHas(DGet(t, a), b) THEN DGet(DGet(t, a), b) ELSE Inf

\* for from_id, neighbors in topology.items(): for to_id, cost in ...
RECURSIVE RowEdges(_, _)
RowEdges(from, row) ==
  IF row = <<>> THEN <<>>
  ELSE <<(<<from, row[1][1], row[1][2]>>)>> \o RowEdges(from, Tail(row))

RECURSIVE Edges(_)
Edges(t) ==
  IF t = <<>> THEN <<>> ELSE RowEdges(t[1][1], t[1][2]) \o Edges(Tail(t))

\* ------------------------------------------------------ unordered tables

\* routing_table and next_hop are dicts keyed by node id, read by key only;
\* they are functions whose DOMAIN is the key set.
FSet(f, k, v) == [x \in (DOMAIN f) \cup {k} |-> IF x = k THEN v ELSE f[x]]

\* dict.get(k, default)
FGet(f, k, default) == IF k \in DOMAIN f THEN f[k] ELSE default

EmptyTable == [x \in {} |-> 0]

\* ---------------------------------------------------------- Bellman-Ford

\* A variant that resets the router's own entry and keeps the other costs.
ResetCostSelfOnly(rt, me) ==
  [x \in (DOMAIN rt) \cup Nodes |->
     IF x = me THEN 0 ELSE IF x \in DOMAIN rt THEN rt[x] ELSE Inf]

\* Lines 486-494: every node of self.nodes is reset; other keys are kept.
ResetCost(rt, me) ==
  [x \in (DOMAIN rt) \cup Nodes |->
     IF x = me THEN 0 ELSE IF x \in Nodes THEN Inf ELSE rt[x]]

ResetHop(nh, me) ==
  [x \in (DOMAIN nh) \cup Nodes |->
     IF x = me THEN me ELSE IF x \in Nodes THEN None ELSE nh[x]]

\* Line 507: the test that lets a link improve a route.
Better(new_cost, old_cost) == new_cost < old_cost

\* Lines 498-512 over the edges es, in order. err is a KeyError raised by
\* routing_table[from_id], routing_table[to_id] or next_hop[from_id]; the
\* tables then keep what was written before it.
RECURSIVE RelaxEdges(_, _, _, _)
RelaxEdges(es, rt, nh, me) ==
  IF es = <<>> THEN [rt |-> rt, nh |-> nh, err |-> FALSE]
  ELSE
    LET from == es[1][1]
        to   == es[1][2]
        cost == es[1][3]
    IN  IF cost = Inf THEN RelaxEdges(Tail(es), rt, nh, me)
        ELSE IF from \notin DOMAIN rt \/ to \notin DOMAIN rt
        THEN [rt |-> rt, nh |-> nh, err |-> TRUE]
        ELSE IF ~Better(Plus(rt[from], cost), rt[to])
        THEN RelaxEdges(Tail(es), rt, nh, me)
        ELSE IF me # from /\ from \notin DOMAIN nh
        THEN [rt |-> FSet(rt, to, Plus(rt[from], cost)), nh |-> nh, err |-> TRUE]
        ELSE RelaxEdges(Tail(es),
                        FSet(rt, to, Plus(rt[from], cost)),
                        FSet(nh, to, IF me = from THEN to ELSE nh[from]),
                        me)

\* Line 497: range(len(self.nodes) - 1) passes over all edges.
RECURSIVE RelaxPasses(_, _, _, _, _)
RelaxPasses(n, es, rt, nh, me) ==
  IF n = 0 THEN [rt |-> rt, nh |-> nh, err |-> FALSE]
  ELSE LET r == RelaxEdges(es, rt, nh, me)
       IN  IF r.err THEN r ELSE RelaxPasses(n - 1, es, r.rt, r.nh, me)

\* Lines 515-517: unreachable destinations get next hop None.
ClearUnreachable(rt, nh) ==
  [x \in (DOMAIN nh) \cup (DOMAIN rt) |->
     IF x \in DOMAIN rt /\ rt[x] = Inf THEN None ELSE nh[x]]

\* Lines 496-517 from reset tables: the relaxation and the final sweep.
Relax(t, rt, nh, me) ==
  LET r == RelaxPasses(Len(NodeSeq) - 1, Edges(t), rt, nh, me)
  IN  IF r.err THEN r
      ELSE [rt |-> r.rt, nh |-> ClearUnreachable(r.rt, r.nh), err |-> FALSE]

\* recompute_routing_table as one call (lines 484-517).
Recompute(t, rt, nh, me) == Relax(t, ResetCost(rt, me), ResetHop(nh, me), me)

\* ---------------------------------------------------------- load_topology

\* Lines 113-127: the node lines.
LoadCost(me) == [x \in Nodes |-> IF x = me THEN 0 ELSE Inf]

LoadHop(me) == [x \in Nodes |-> IF x = me THEN me ELSE None]

\* Lines 132-138: the link lines build the topology view.
RECURSIVE LoadLinks(_, _)
LoadLinks(links, t) ==
  IF links = <<>> THEN t
  ELSE LoadLinks(Tail(links), TSetBoth(t, links[1][1], links[1][2], links[1][3]))

\* Lines 141-150: the links incident to this server become neighbors.
RECURSIVE LoadNeighbors(_, _, _)
LoadNeighbors(links, nb, me) ==
  IF links = <<>> THEN nb
  ELSE LET a == links[1][1]
           b == links[1][2]
           c == links[1][3]
       IN  LoadNeighbors(Tail(links),
                         IF a = me THEN DSet(nb, b, c)
                         ELSE IF b = me THEN DSet(nb, a, c) ELSE nb,
                         me)

\* Line 161: the initial tables are those of recompute_routing_table (the
\* direct costs written at lines 143-149 are reset by it).
LoadTables(links, me) ==
  Recompute(LoadLinks(links, <<>>), LoadCost(me), LoadHop(me), me)

\* ------------------------------------------------------------- wire codec

\* One message; unused fields hold 0 / <<>>.
Msg(kind, id, s1, s2, cost, origin, table) ==
  [kind |-> kind, id |-> id, s1 |-> s1, s2 |-> s2, cost |-> cost,
   origin |-> origin, table |-> table]

\* json.dumps of the routing table: an object of "key": value members, here
\* the <<key, value>> pairs in ascending key order.
RECURSIVE EncodeTable(_)
EncodeTable(rt) ==
  IF DOMAIN rt = {} THEN <<>>
  ELSE LET k == CHOOSE x \in DOMAIN rt : \A y \in DOMAIN rt : x <= y
       IN  <<(<<k, rt[k]>>)>> \o EncodeTable([x \in (DOMAIN rt) \ {k} |-> rt[x]])

\* Line 303: an advertisement is ignored when the sender is a neighbor whose
\* stored cost is infinite.
IgnoredSender(nb, sender) == DHas(nb, sender) /\ DGet(nb, sender) = Inf

\* A variant that also takes a route of equal cost.
ImprovesOrTies(new_cost, old_cost) == new_cost <= old_cost

\* Line 323: the test that lets an advertised route replace the current one.
Improves(new_cost, old_cost) == new_cost < old_cost

\* Lines 314-328 over the received entries, in order.
RECURSIVE ApplyVector(_, _, _, _, _, _)
ApplyVector(vec, rt, nh, me, sender, updated) ==
  IF vec = <<>> THEN [rt |-> rt, nh |-> nh, updated |-> updated]
  ELSE
    LET dest == vec[1][1]
        new_cost == Plus(FGet(rt, sender, Inf), vec[1][2])
    IN  IF dest = me THEN ApplyVector(Tail(vec), rt, nh, me, sender, updated)
        ELSE IF Improves(new_cost, FGet(rt, dest, Inf))
        THEN ApplyVector(Tail(vec), FSet(rt, dest, new_cost),
                         FSet(nh, dest, sender), me, sender, TRUE)
        ELSE ApplyVector(Tail(vec), rt, nh, me, sender, updated)

\* ------------------------------------------------------------------ bounds

\* Periodic advertisement rounds per router, and operator commands in the
\* whole network, of the specifications below.
QuietTicks == 2

MaxTicks == 1

MaxCmds == 1

\* Handlers (a command, a periodic round, the handling of one message) in
\* progress at the same time in the whole network.
MaxActive == 2

\* A periodic round begins only while at most this many handlers and queued
\* messages are in progress in the network (rounds are seconds apart, the
\* handling of a message is fast).
TickBusy == 0

QuietBusy == 1

\* ------------------------------------------------------------------- state

VARIABLES
  topology,                    \* [router -> self.topology]
  neighbors,                   \* [router -> self.neighbors]
  routing_table,               \* [router -> self.routing_table]
  next_hop,                    \* [router -> self.next_hop]
  processed_updates,           \* [router -> self.processed_updates]
  disabled_links,              \* [router -> self.disabled_links]
  number_of_packets_received,  \* [router -> the counter]
  running,                     \* [router -> self.running]
  alive,                       \* [router -> the process exists]
  lock,                        \* [router -> "free" or the thread holding self.lock]
  inbox,                       \* [router -> connections queued at its listener]
  th,                          \* [router -> [thread -> where the thread is]]
  ticks,                       \* [router -> periodic rounds started]
  cmds,                        \* operator commands and foreign frames given to the network
  missed,                      \* [router -> [node -> rounds since its last advertisement]]
  last,                        \* the last operator command issued
  lost,                        \* a send found the listener's queue full
  limit,                       \* the bounds of the specification
  udp,                         \* [router -> its RouterServer.py process]
  rs,                          \* [router -> the tables of its RouterServer.py process]
  ar,                          \* [router -> its A/router.py process]
  hm                           \* [router -> its test.py process]

vars == <<topology, neighbors, routing_table, next_hop, processed_updates,
          disabled_links, number_of_packets_received, running, alive, lock,
          inbox, th, ticks, cmds, missed, last, lost, limit, udp, rs, ar, hm>>

\* Where a thread is: pc is the next step, k the kind of loop or handler,
\* a, b, c, org the arguments, i and n the dict iterator (next position and
\* the dict's size when the loop began), tab a received vector or a list.
Thread(pc, k, a, b, c, org, i, n, tab) ==
  [pc |-> pc, k |-> k, a |-> a, b |-> b, c |-> c, org |-> org,
   i |-> i, n |-> n, tab |-> tab]

\* Waiting: for input (cmd), in time.sleep (per), in accept (lis).
IdleT == Thread("idle", "", 0, 0, 0, 0, 0, 0, <<>>)

\* The thread's loop ended because self.running is False.
DoneT == Thread("done", "", 0, 0, 0, 0, 0, 0, <<>>)

\* The thread ended with an uncaught exception.
DeadT == Thread("dead", "", 0, 0, 0, 0, 0, 0, <<>>)

\* A handler returns to its thread's `while self.running` loop.
Finish(r) == IF running[r] THEN IdleT ELSE DoneT

\* A `for neighbor_id in self.neighbors` loop sending messages of kind k;
\* its iterator is created by the first iteration.
StartLoop(k, a, b, c, org) == Thread("send", k, a, b, c, org, 1, 0, <<>>)

\* A call of recompute_routing_table.
StartRecompute(k) == Thread("rc_reset", k, 0, 0, 0, 0, 0, 0, <<>>)

\* A call of update(a, b, c).
StartUpdate(a, b, c) ==
  Thread(IF c = Inf THEN "upd_inf" ELSE "upd_l1", "upd", a, b, c, 0, 0, 0, <<>>)

\* An exception leaves a handler: the listener catches it (line 199), the
\* periodic thread ends, and in the command loop it ends the process.
AfterRaise(r, t) == IF t = "lis" THEN Finish(r) ELSE DeadT

AliveAfterRaise(r, t) == IF t = "cmd" THEN [alive EXCEPT ![r] = FALSE] ELSE alive

\* send_message: the message joins the destination's queue of pending
\* connections; to a dead process, or a full queue, the send fails.
Accepts(dest) == alive[dest] /\ Len(inbox[dest]) < Backlog

Deliver(dest, m) ==
  IF Accepts(dest) THEN [inbox EXCEPT ![dest] = Append(@, m)] ELSE inbox

\* Messages queued at the listeners of the network.
RECURSIVE SumLen(_, _)
SumLen(q, S) ==
  IF S = {} THEN 0
  ELSE LET x == CHOOSE y \in S : TRUE IN Len(q[x]) + SumLen(q, S \ {x})

RECURSIVE Sum(_, _)
Sum(f, S) ==
  IF S = {} THEN 0
  ELSE LET x == CHOOSE y \in S : TRUE IN f[x] + Sum(f, S \ {x})

\* Periodic rounds started in the whole network.
Rounds == Sum(ticks, Nodes)

Pending == SumLen(inbox, {x \in Nodes : alive[x]})

\* Handlers in progress in the network: threads of live routers that are
\* inside a command, a periodic round or the handling of a message.
Active ==
  Cardinality({x \in Nodes \X Threads :
                 alive[x[1]] /\ th[x[1]][x[2]].pc \notin {"idle", "done", "dead"}})

\* A handler may begin.
CanStart == Active < limit.active

\* RouterServer.py, lines 12-13 and 247: the counter is 0, the server runs
\* and its listener thread is started.
UdpStart == [packet_counter |-> 0, running |-> TRUE, listening |-> TRUE]

\* -------------------------------------------- RouterServer.py, the tables

\* One row of RouterServer.py's routing_table.
Route(hop, cost) == [next_hop |-> hop, cost |-> cost]

\* RouterServer.py, load_topology (lines 26-47): the row of the server
\* itself, a row at infinity for every other server in file order, then the
\* links whose first id is this server become neighbors with a direct route.
RECURSIVE RsNodes(_, _, _)
RsNodes(ids, rt, me) ==
  IF ids = <<>> THEN rt
  ELSE RsNodes(Tail(ids),
               IF ids[1] = me THEN rt ELSE DSet(rt, ids[1], Route(ids[1], Inf)),
               me)

RECURSIVE RsLinks(_, _, _)
RsLinks(links, st, me) ==
  IF links = <<>> THEN st
  ELSE LET sid2 == links[1][2]
           cost == links[1][3]
       IN  RsLinks(Tail(links),
                   IF links[1][1] = me
                   THEN [st EXCEPT !.neighbors = DSet(@, sid2, cost),
                                   !.routing_table = DSet(@, sid2, Route(sid2, cost))]
                   ELSE st,
                   me)

\* The tables after construction. heard (each neighbor's last vector),
\* recalculated (the last datagram ended in recalculate_routing_table) and
\* vectors (datagrams processed) record the history and are not read by the
\* server.
RsLoad(links, me) ==
  RsLinks(links,
          [routing_table |-> RsNodes(NodeSeq, <<(<<me, Route(me, 0)>>)>>, me),
           neighbors |-> <<>>,
           heard |-> <<>>,
           recalculated |-> FALSE,
           vectors |-> 0],
          me)

\* ------------------------------------------------- A/router.py, the tables

\* A/router.py, load_topology (lines 232-252): cost 0 to itself, infinity to
\* the others, then every link incident to this server becomes a neighbor
\* with a direct route. inbox holds the `update` messages sent to this
\* server and not yet handled, notified counts those it has sent.
ArLoad(links, me) ==
  [neighbors |-> LoadNeighbors(links, <<>>, me),
   routing_table |-> [x \in Nodes |->
                        IF x = me THEN 0
                        ELSE IF DHas(LoadNeighbors(links, <<>>, me), x)
                             THEN DGet(LoadNeighbors(links, <<>>, me), x)
                             ELSE Inf],
   next_hop |-> [x \in Nodes |->
                   IF x = me \/ DHas(LoadNeighbors(links, <<>>, me), x)
                   THEN x ELSE None],
   inbox |-> <<>>,
   notified |-> 0]

\* ----------------------------------------------------- test.py, the tables

\* test.py, load_topology (lines 203-232): as above, with neighbors a set of
\* ids. The other fields record the health monitor's progress and history and
\* are not read by the router: rounds counts the health-check rounds run, i is
\* the position of the running round in the keys of routing_table (0 while
\* the monitor sleeps), down holds the nodes that did not answer their last
\* probe, changed tells that a probe of the running round differed from the
\* one before it, and rt0 and nh0 are the tables as the round found them.
HmLoad(links, me) ==
  [neighbors |-> DKeys(LoadNeighbors(links, <<>>, me)),
   routing_table |-> [x \in Nodes |->
                        IF x = me THEN 0
                        ELSE IF DHas(LoadNeighbors(links, <<>>, me), x)
                             THEN DGet(LoadNeighbors(links, <<>>, me), x)
                             ELSE Inf],
   next_hop |-> [x \in Nodes |->
                   IF x = me \/ DHas(LoadNeighbors(links, <<>>, me), x)
                   THEN x ELSE None],
   rounds |-> 0,
   i |-> 0,
   down |-> {},
   changed |-> FALSE,
   rt0 |-> <<>>,
   nh0 |-> <<>>]

\* ----------------------------------------------------------------- startup

InitWith(links, lim) ==
  /\ topology = [r \in Nodes |-> LoadLinks(links, <<>>)]
  /\ neighbors = [r \in Nodes |-> LoadNeighbors(links, <<>>, r)]
  /\ routing_table = [r \in Nodes |-> LoadTables(links, r).rt]
  /\ next_hop = [r \in Nodes |-> LoadTables(links, r).nh]
  /\ processed_updates = [r \in Nodes |-> {}]
  /\ disabled_links = [r \in Nodes |-> {}]
  /\ number_of_packets_received = [r \in Nodes |-> 0]
  /\ running = [r \in Nodes |-> TRUE]
  /\ alive = [r \in Nodes |-> TRUE]
  /\ lock = [r \in Nodes |-> "free"]
  /\ inbox = [r \in Nodes |-> <<>>]
  /\ th = [r \in Nodes |-> [t \in Threads |-> IdleT]]
  /\ ticks = [r \in Nodes |-> 0]
  /\ cmds = 0
  /\ missed = [r \in Nodes |-> [n \in Nodes |-> 0]]
  /\ last = <<>>
  /\ lost = FALSE
  /\ limit = lim
  /\ udp = [r \in Nodes |-> UdpStart]
  /\ rs = [r \in Nodes |-> RsLoad(links, r)]
  /\ ar = [r \in Nodes |-> ArLoad(links, r)]
  /\ hm = [r \in Nodes |-> HmLoad(links, r)]

\* ------------------------------------------------------ periodic advertiser

\* periodic_update: the sleep ends and step() begins.
Tick(r) ==
  /\ alive[r]
  /\ th[r]["per"].pc = "idle"
  /\ ticks[r] < limit.ticks
  /\ Rounds < limit.rounds
  /\ CanStart
  /\ Active + Pending <= limit.tickbusy
  /\ th' = [th EXCEPT ![r]["per"] = StartLoop("step", 0, 0, 0, 0)]
  /\ ticks' = [ticks EXCEPT ![r] = @ + 1]
  /\ missed' = [missed EXCEPT ![r] = [n \in Nodes |-> IF @[n] < limit.missed THEN @[n] + 1 ELSE @[n]]]
  /\ UNCHANGED <<topology, neighbors, routing_table, next_hop, processed_updates,
                 disabled_links, number_of_packets_received, running, alive,
                 lock, inbox, cmds, last, lost, limit, udp, rs, ar, hm>>

\* ------------------------------------------------------------- send loops

\* The message a loop of thread state s sends from router r.
LoopMsg(r, s) ==
  CASE s.k = "step" -> Msg("adv", r, 0, 0, 0, 0, EncodeTable(routing_table[r]))
    [] s.k = "upd" -> Msg("upd", 0, s.a, s.b, s.c, r, <<>>)
    [] s.k = "dis" -> Msg("dis", 0, s.a, s.b, 0, r, <<>>)
    [] s.k = "fwd" -> Msg("upd", 0, s.a, s.b, Inf, IF s.org = 0 THEN r ELSE s.org, <<>>)
    [] OTHER -> Msg("crash", r, 0, 0, 0, 0, <<>>)

\* What follows a loop: step returns, crash stops the server, the others
\* call recompute_routing_table.
AfterLoop(r, s) ==
  CASE s.k = "step" -> Finish(r)
    [] s.k = "crash" -> Thread("crash_stop", "crash", 0, 0, 0, 0, 0, 0, <<>>)
    [] OTHER -> StartRecompute(s.k)

\* The loop's next destination: an entry of self.neighbors, or of the list
\* crash() copied.
LoopKeys(r, s) ==
  IF s.k = "crash" THEN s.tab ELSE [j \in 1..Len(neighbors[r]) |-> neighbors[r][j][1]]

\* get_node_by_id finds the node, and broadcast_topology_update skips the origin.
Sendable(s, dest) == dest \in Nodes /\ ~(s.k = "fwd" /\ dest = s.org)

\* One iteration of a send loop: the dict iterator raises RuntimeError when
\* the dict's size changed since the loop began, and otherwise yields the
\* next neighbor, to which the message is serialised and sent; after the
\* last neighbor (or at once, on an empty dict) the loop ends.
SendNext(r, t) ==
  LET s == th[r][t]
      keys == LoopKeys(r, s)
      changed == s.k # "crash" /\ s.i > 1 /\ Len(neighbors[r]) # s.n
      dest == keys[s.i]
  IN
  /\ alive[r]
  /\ s.pc = "send"
  /\ IF changed
     THEN /\ th' = [th EXCEPT ![r][t] = AfterRaise(r, t)]
          /\ alive' = AliveAfterRaise(r, t)
          /\ UNCHANGED <<inbox, lost>>
     ELSE IF s.i > Len(keys)
     THEN /\ th' = [th EXCEPT ![r][t] = AfterLoop(r, s)]
          /\ UNCHANGED <<alive, inbox, lost>>
     ELSE /\ th' = [th EXCEPT ![r][t] =
                      IF s.i = Len(keys) THEN AfterLoop(r, s)
                      ELSE [s EXCEPT !.i = @ + 1, !.n = Len(keys)]]
          /\ inbox' = IF Sendable(s, dest) THEN Deliver(dest, LoopMsg(r, s)) ELSE inbox
          /\ lost' = (lost \/ (Sendable(s, dest) /\ alive[dest] /\ ~Accepts(dest)))
          /\ UNCHANGED alive
  /\ UNCHANGED <<topology, neighbors, routing_table, next_hop, processed_updates,
                 disabled_links, number_of_packets_received, running, lock,
                 ticks, cmds, missed, last, limit, udp, rs, ar, hm>>

\* ---------------------------------------------------------------- listener

\* Lines 189-198: a frame reaches process_message when it is not blank and
\* json.loads accepts it.
Parsed(m) == m.kind \notin {"empty", "garbage"}

\* handle_client and the head of process_message: the frame is read, the
\* packet counted when it parses, and the message dispatched up to its first
\* lock. A message with an unknown command ends at line 337; one that lacks
\* a field raises KeyError, caught at line 199.
Receive(r) ==
  LET m == Head(inbox[r])
      key == <<m.s1, m.s2, m.cost>>
  IN
  /\ alive[r]
  /\ th[r]["lis"].pc = "idle"
  /\ inbox[r] # <<>>
  /\ CanStart
  /\ inbox' = [inbox EXCEPT ![r] = Tail(@)]
  /\ number_of_packets_received' =
       [number_of_packets_received EXCEPT ![r] = IF Parsed(m) THEN @ + 1 ELSE @]
  /\ missed' = IF m.kind = "adv" /\ m.id \in Nodes
               THEN [missed EXCEPT ![r][m.id] = 0] ELSE missed
  /\ processed_updates' =
       IF m.kind = "upd"
       THEN [processed_updates EXCEPT ![r] = @ \cup {key}] ELSE processed_updates
  /\ th' = [th EXCEPT ![r]["lis"] =
       CASE m.kind = "crash" -> Thread("lc_lock", "crash", m.id, 0, 0, 0, 0, 0, <<>>)
         [] m.kind = "upd" ->
              IF key \in processed_updates[r] THEN Finish(r)
              ELSE StartUpdate(m.s2, m.s1, m.cost)
         [] m.kind = "dis" ->
              IF <<m.s1, m.s2>> \in disabled_links[r] THEN Finish(r)
              ELSE Thread("ld_lock", "dis", m.s1, m.s2, 0, m.origin, 0, 0, <<>>)
         [] m.kind = "adv" ->
              IF IgnoredSender(neighbors[r], m.id) THEN Finish(r)
              ELSE Thread("adv_lock", "adv", m.id, 0, 0, 0, 0, 0, m.table)
         [] OTHER -> Finish(r)]
  /\ UNCHANGED <<topology, neighbors, routing_table, next_hop, disabled_links,
                 running, alive, lock, ticks, cmds, last, lost, limit, udp, rs, ar, hm>>

\* Lines 312-334: the received vector is applied under the lock; a changed
\* table is advertised by step().
AdvLock(r) ==
  LET s == th[r]["lis"]
      res == ApplyVector(s.tab, routing_table[r], next_hop[r], r, s.a, FALSE)
  IN
  /\ alive[r]
  /\ s.pc = "adv_lock"
  /\ lock[r] = "free"
  /\ routing_table' = [routing_table EXCEPT ![r] = res.rt]
  /\ next_hop' = [next_hop EXCEPT ![r] = res.nh]
  /\ th' = [th EXCEPT ![r]["lis"] =
              IF res.updated THEN StartLoop("step", 0, 0, 0, 0) ELSE Finish(r)]
  /\ UNCHANGED <<topology, neighbors, processed_updates, disabled_links,
                 number_of_packets_received, running, alive, lock, inbox,
                 ticks, cmds, missed, last, lost, limit, udp, rs, ar, hm>>

\* ------------------------------------------------- recompute_routing_table

\* Lines 484-494: the lock is taken and the tables are reset.
RcReset(r, t) ==
  /\ alive[r]
  /\ th[r][t].pc = "rc_reset"
  /\ lock[r] = "free"
  /\ lock' = [lock EXCEPT ![r] = t]
  /\ routing_table' = [routing_table EXCEPT ![r] = ResetCost(@, r)]
  /\ next_hop' = [next_hop EXCEPT ![r] = ResetHop(@, r)]
  /\ th' = [th EXCEPT ![r][t].pc = "rc_relax"]
  /\ UNCHANGED <<topology, neighbors, processed_updates, disabled_links,
                 number_of_packets_received, running, alive, inbox, ticks,
                 cmds, missed, last, lost, limit, udp, rs, ar, hm>>

\* Lines 496-520: the relaxation runs and the lock is released; a KeyError
\* leaves through the `with` block, which releases the lock too.
RcRelax(r, t) ==
  LET res == Relax(topology[r], routing_table[r], next_hop[r], r)
  IN
  /\ alive[r]
  /\ th[r][t].pc = "rc_relax"
  /\ lock[r] = t
  /\ lock' = [lock EXCEPT ![r] = "free"]
  /\ routing_table' = [routing_table EXCEPT ![r] = res.rt]
  /\ next_hop' = [next_hop EXCEPT ![r] = res.nh]
  /\ th' = [th EXCEPT ![r][t] = IF res.err THEN AfterRaise(r, t) ELSE Finish(r)]
  /\ alive' = IF res.err THEN AliveAfterRaise(r, t) ELSE alive
  /\ UNCHANGED <<topology, neighbors, processed_updates, disabled_links,
                 number_of_packets_received, running, inbox, ticks, cmds,
                 missed, last, lost, limit, udp, rs, ar, hm>>

\* ------------------------------------------------------------------ update

\* The endpoint of link (a,b) that is not this router, when it is one.
\* Lines 402 and 432: this router is an endpoint of link (a,b).
Incident(r, a, b) == a = r \/ b = r

OtherEnd(r, a, b) == IF a = r THEN b ELSE a

DisabledBoth(d, a, b) == d \cup {<<a, b>>, <<b, a>>}

\* A variant that broadcasts inside the `with self.lock` block.
UpdInfLockHeld(r, t) ==
  LET s == th[r][t] IN
  /\ alive[r]
  /\ s.pc = "upd_inf"
  /\ lock[r] = "free"
  /\ lock' = [lock EXCEPT ![r] = t]
  /\ topology' = [topology EXCEPT ![r] = TSetBoth(@, s.a, s.b, s.c)]
  /\ disabled_links' = [disabled_links EXCEPT ![r] = DisabledBoth(@, s.a, s.b)]
  /\ neighbors' = IF Incident(r, s.a, s.b)
                  THEN [neighbors EXCEPT ![r] = DDel(@, OtherEnd(r, s.a, s.b))]
                  ELSE neighbors
  /\ th' = [th EXCEPT ![r][t] = StartLoop("dis", s.a, s.b, 0, 0)]
  /\ UNCHANGED <<routing_table, next_hop, processed_updates,
                 number_of_packets_received, running, alive, inbox,
                 ticks, cmds, missed, last, lost, limit, udp, rs, ar, hm>>

\* Lines 395-406: an infinite cost disables the link under the lock.
UpdInfLock(r, t) ==
  LET s == th[r][t] IN
  /\ alive[r]
  /\ s.pc = "upd_inf"
  /\ lock[r] = "free"
  /\ topology' = [topology EXCEPT ![r] = TSetBoth(@, s.a, s.b, s.c)]
  /\ disabled_links' = [disabled_links EXCEPT ![r] = DisabledBoth(@, s.a, s.b)]
  /\ neighbors' = IF Incident(r, s.a, s.b)
                  THEN [neighbors EXCEPT ![r] = DDel(@, OtherEnd(r, s.a, s.b))]
                  ELSE neighbors
  /\ th' = [th EXCEPT ![r][t] = StartLoop("dis", s.a, s.b, 0, 0)]
  /\ UNCHANGED <<routing_table, next_hop, processed_updates,
                 number_of_packets_received, running, alive, lock, inbox,
                 ticks, cmds, missed, last, lost, limit, udp, rs, ar, hm>>

\* Lines 427-430: a finite cost is written to the topology view.
UpdTopology(r, t) ==
  LET s == th[r][t] IN
  /\ alive[r]
  /\ s.pc = "upd_l1"
  /\ lock[r] = "free"
  /\ topology' = [topology EXCEPT ![r] = TSetBoth(@, s.a, s.b, s.c)]
  /\ th' = [th EXCEPT ![r][t] =
              IF Incident(r, s.a, s.b) THEN [s EXCEPT !.pc = "upd_l2"]
              ELSE StartLoop("upd", s.a, s.b, s.c, 0)]
  /\ UNCHANGED <<neighbors, routing_table, next_hop, processed_updates,
                 disabled_links, number_of_packets_received, running, alive,
                 lock, inbox, ticks, cmds, missed, last, lost, limit, udp, rs, ar, hm>>

\* A variant that writes the route and leaves the neighbor entry alone.
UpdNeighborRouteOnly(r, t) ==
  LET s == th[r][t]
      n == OtherEnd(r, s.a, s.b)
  IN
  /\ alive[r]
  /\ s.pc = "upd_l2"
  /\ lock[r] = "free"
  /\ routing_table' = [routing_table EXCEPT ![r] = FSet(@, n, s.c)]
  /\ next_hop' = [next_hop EXCEPT ![r] = FSet(@, n, n)]
  /\ th' = [th EXCEPT ![r][t] = StartLoop("upd", s.a, s.b, s.c, 0)]
  /\ UNCHANGED <<topology, neighbors, processed_updates, disabled_links,
                 number_of_packets_received, running, alive, lock, inbox,
                 ticks, cmds, missed, last, lost, limit, udp, rs, ar, hm>>

\* Lines 432-438: an endpoint writes the cost to its neighbor entry and to
\* its route to that neighbor.
UpdNeighbor(r, t) ==
  LET s == th[r][t]
      n == OtherEnd(r, s.a, s.b)
  IN
  /\ alive[r]
  /\ s.pc = "upd_l2"
  /\ lock[r] = "free"
  /\ neighbors' = [neighbors EXCEPT ![r] = DSet(@, n, s.c)]
  /\ routing_table' = [routing_table EXCEPT ![r] = FSet(@, n, s.c)]
  /\ next_hop' = [next_hop EXCEPT ![r] = FSet(@, n, n)]
  /\ th' = [th EXCEPT ![r][t] = StartLoop("upd", s.a, s.b, s.c, 0)]
  /\ UNCHANGED <<topology, processed_updates, disabled_links,
                 number_of_packets_received, running, alive, lock, inbox,
                 ticks, cmds, missed, last, lost, limit, udp, rs, ar, hm>>

\* ----------------------------------------------------------------- disable

\* A disable that records the pair in disabled_links but leaves the cost of
\* the link in the topology as it was.
DisLockListOnly(r) ==
  LET s == th[r]["cmd"] IN
  /\ alive[r]
  /\ s.pc = "dis_lock"
  /\ lock[r] = "free"
  /\ disabled_links' = [disabled_links EXCEPT ![r] = DisabledBoth(@, r, s.a)]
  /\ th' = [th EXCEPT ![r]["cmd"].pc = "dis_del"]
  /\ UNCHANGED <<topology, neighbors, routing_table, next_hop, processed_updates,
                 number_of_packets_received, running, alive, lock, inbox,
                 ticks, cmds, missed, last, lost, limit, udp, rs, ar, hm>>

\* Lines 545-550: the link is marked disabled under the lock.
DisLock(r) ==
  LET s == th[r]["cmd"] IN
  /\ alive[r]
  /\ s.pc = "dis_lock"
  /\ lock[r] = "free"
  /\ topology' = [topology EXCEPT ![r] = TSetBoth(@, r, s.a, Inf)]
  /\ disabled_links' = [disabled_links EXCEPT ![r] = DisabledBoth(@, r, s.a)]
  /\ th' = [th EXCEPT ![r]["cmd"].pc = "dis_del"]
  /\ UNCHANGED <<neighbors, routing_table, next_hop, processed_updates,
                 number_of_packets_received, running, alive, lock, inbox,
                 ticks, cmds, missed, last, lost, limit, udp, rs, ar, hm>>

\* A variant that keeps the disabled neighbor with cost infinity.
DisRemoveKeepInf(r) ==
  LET s == th[r]["cmd"] IN
  /\ alive[r]
  /\ s.pc = "dis_del"
  /\ neighbors' = [neighbors EXCEPT ![r] = DSet(@, s.a, Inf)]
  /\ th' = [th EXCEPT ![r]["cmd"] = StartLoop("dis", r, s.a, 0, 0)]
  /\ UNCHANGED <<topology, routing_table, next_hop, processed_updates,
                 disabled_links, number_of_packets_received, running, alive,
                 lock, inbox, ticks, cmds, missed, last, lost, limit, udp, rs, ar, hm>>

\* Lines 553-568: the neighbor is removed (outside the lock) and the loop
\* that broadcasts disable_link begins.
DisRemove(r) ==
  LET s == th[r]["cmd"] IN
  /\ alive[r]
  /\ s.pc = "dis_del"
  /\ neighbors' = [neighbors EXCEPT ![r] = DDel(@, s.a)]
  /\ th' = [th EXCEPT ![r]["cmd"] = StartLoop("dis", r, s.a, 0, 0)]
  /\ UNCHANGED <<topology, routing_table, next_hop, processed_updates,
                 disabled_links, number_of_packets_received, running, alive,
                 lock, inbox, ticks, cmds, missed, last, lost, limit, udp, rs, ar, hm>>

\* ------------------------------------------------- control message handlers

\* Lines 220-225: the crashed server's row and every entry naming it go.
DropNode(t, x) ==
  IF DHas(t, x)
  THEN LET kept == DDel(t, x)
       IN  [i \in 1..Len(kept) |-> <<kept[i][1], DDel(kept[i][2], x)>>]
  ELSE t

\* Lines 214-233: a crash notification is applied under the lock.
CrashLock(r) ==
  LET s == th[r]["lis"] IN
  /\ alive[r]
  /\ s.pc = "lc_lock"
  /\ lock[r] = "free"
  /\ topology' = [topology EXCEPT ![r] = DropNode(@, s.a)]
  /\ neighbors' = [neighbors EXCEPT ![r] = DDel(@, s.a)]
  /\ th' = [th EXCEPT ![r]["lis"] = StartRecompute("crash")]
  /\ UNCHANGED <<routing_table, next_hop, processed_updates, disabled_links,
                 number_of_packets_received, running, alive, lock, inbox,
                 ticks, cmds, missed, last, lost, limit, udp, rs, ar, hm>>

\* Lines 281-291: a disable_link message is applied under the lock, then
\* forwarded unless this router is its origin.
DisableLock(r) ==
  LET s == th[r]["lis"] IN
  /\ alive[r]
  /\ s.pc = "ld_lock"
  /\ lock[r] = "free"
  /\ disabled_links' = [disabled_links EXCEPT ![r] = DisabledBoth(@, s.a, s.b)]
  /\ topology' = [topology EXCEPT ![r] = TSetBoth(@, s.a, s.b, Inf)]
  /\ th' = [th EXCEPT ![r]["lis"] =
              IF s.org # r THEN StartLoop("fwd", s.a, s.b, Inf, s.org)
              ELSE StartRecompute("dis")]
  /\ UNCHANGED <<neighbors, routing_table, next_hop, processed_updates,
                 number_of_packets_received, running, alive, lock, inbox,
                 ticks, cmds, missed, last, lost, limit, udp, rs, ar, hm>>

\* ---------------------------------------------------------------- commands

\* run() reads a command while the command loop waits for input.
CanCommand(r) ==
  /\ alive[r]
  /\ th[r]["cmd"].pc = "idle"
  /\ cmds < limit.cmds
  /\ CanStart

\* `update a b c`
CmdUpdate(r, a, b, c) ==
  /\ CanCommand(r)
  /\ th' = [th EXCEPT ![r]["cmd"] = StartUpdate(a, b, c)]
  /\ cmds' = cmds + 1
  /\ last' = <<"update", r, a, b, c>>
  /\ UNCHANGED <<topology, neighbors, routing_table, next_hop, processed_updates,
                 disabled_links, number_of_packets_received, running, alive,
                 lock, inbox, ticks, missed, lost, limit, udp, rs, ar, hm>>

\* A variant that does not look at self.neighbors.
CmdDisableAnyway(r, n) ==
  /\ CanCommand(r)
  /\ th' = [th EXCEPT ![r]["cmd"] = Thread("dis_lock", "dis", n, 0, 0, 0, 0, 0, <<>>)]
  /\ cmds' = cmds + 1
  /\ last' = <<"disable", r, n, 0, 0>>
  /\ UNCHANGED <<topology, neighbors, routing_table, next_hop, processed_updates,
                 disabled_links, number_of_packets_received, running, alive,
                 lock, inbox, ticks, missed, lost, limit, udp, rs, ar, hm>>

\* `disable n`: lines 537-539 refuse a server that is not a neighbor.
CmdDisable(r, n) ==
  /\ CanCommand(r)
  /\ th' = [th EXCEPT ![r]["cmd"] =
              IF DHas(neighbors[r], n)
              THEN Thread("dis_lock", "dis", n, 0, 0, 0, 0, 0, <<>>)
              ELSE Finish(r)]
  /\ cmds' = cmds + 1
  /\ last' = <<"disable", r, n, 0, 0>>
  /\ UNCHANGED <<topology, neighbors, routing_table, next_hop, processed_updates,
                 disabled_links, number_of_packets_received, running, alive,
                 lock, inbox, ticks, missed, lost, limit, udp, rs, ar, hm>>

\* `step`
CmdStep(r) ==
  /\ CanCommand(r)
  /\ th' = [th EXCEPT ![r]["cmd"] = StartLoop("step", 0, 0, 0, 0)]
  /\ cmds' = cmds + 1
  /\ last' = <<"step", r, 0, 0, 0>>
  /\ UNCHANGED <<topology, neighbors, routing_table, next_hop, processed_updates,
                 disabled_links, number_of_packets_received, running, alive,
                 lock, inbox, ticks, missed, lost, limit, udp, rs, ar, hm>>

\* `crash`: line 580 copies the neighbor ids, which are then notified.
CmdCrash(r) ==
  /\ CanCommand(r)
  /\ th' = [th EXCEPT ![r]["cmd"] =
              Thread("send", "crash", 0, 0, 0, 0, 1, 0,
                     [j \in 1..Len(neighbors[r]) |-> neighbors[r][j][1]])]
  /\ cmds' = cmds + 1
  /\ last' = <<"crash", r, 0, 0, 0>>
  /\ UNCHANGED <<topology, neighbors, routing_table, next_hop, processed_updates,
                 disabled_links, number_of_packets_received, running, alive,
                 lock, inbox, ticks, missed, lost, limit, udp, rs, ar, hm>>

\* Lines 592-595: the server stops and clears its tables.
CrashStop(r) ==
  /\ alive[r]
  /\ th[r]["cmd"].pc = "crash_stop"
  /\ running' = [running EXCEPT ![r] = FALSE]
  /\ neighbors' = [neighbors EXCEPT ![r] = <<>>]
  /\ routing_table' = [routing_table EXCEPT ![r] = EmptyTable]
  /\ next_hop' = [next_hop EXCEPT ![r] = EmptyTable]
  /\ th' = [th EXCEPT ![r]["cmd"].pc = "exit"]
  /\ UNCHANGED <<topology, processed_updates, disabled_links,
                 number_of_packets_received, alive, lock, inbox, ticks, cmds,
                 missed, last, lost, limit, udp, rs, ar, hm>>

\* Line 630: run() returns and the process, with its daemon threads, ends.
Exit(r) ==
  /\ alive[r]
  /\ th[r]["cmd"].pc = "exit"
  /\ alive' = [alive EXCEPT ![r] = FALSE]
  /\ th' = [th EXCEPT ![r]["cmd"] = DoneT]
  /\ UNCHANGED <<topology, neighbors, routing_table, next_hop, processed_updates,
                 disabled_links, number_of_packets_received, running, lock,
                 inbox, ticks, cmds, missed, last, lost, limit, udp, rs, ar, hm>>

\* ------------------------------------------------------ quiet network (T3)

\* Topology T3 with no operator: only periodic rounds and their deliveries.
QuietInit == InitWith(T3Links, [ticks |-> QuietTicks, rounds |-> QuietTicks * Len(NodeSeq), cmds |-> 0,
                       missed |-> 0, active |-> MaxActive, tickbusy |-> QuietBusy])

QuietNext ==
  \/ \E r \in Nodes : Tick(r)
  \/ \E r \in Nodes, t \in Threads : SendNext(r, t)
  \/ \E r \in Nodes : Receive(r)
  \/ \E r \in Nodes : AdvLock(r)

QuietSpec == QuietInit /\ [][QuietNext]_vars

\* External kill of the process (no crash notification is sent).
Kill(r) ==
  /\ alive[r]
  /\ cmds < limit.cmds
  /\ Active = 0
  /\ alive' = [alive EXCEPT ![r] = FALSE]
  /\ cmds' = cmds + 1
  /\ last' = <<"kill", r, 0, 0, 0>>
  /\ UNCHANGED <<topology, neighbors, routing_table, next_hop, processed_updates,
                 disabled_links, number_of_packets_received, running, lock,
                 inbox, th, ticks, missed, lost, limit, udp, rs, ar, hm>>

\* Nothing is in progress and nothing is queued at a live router.
Quiet == Active = 0 /\ Pending = 0

\* ------------------------------------------------- the network on T3

\* Steps of the advertisement traffic.
AdvertWork ==
  \/ \E r \in Nodes, t \in Threads : SendNext(r, t)
  \/ \E r \in Nodes : Receive(r)
  \/ \E r \in Nodes : AdvLock(r)

\* Steps of recompute_routing_table.
RecomputeWork ==
  \/ \E r \in Nodes, t \in Threads : RcReset(r, t)
  \/ \E r \in Nodes, t \in Threads : RcRelax(r, t)

\* Steps of a finite update.
UpdateWork ==
  \/ \E r \in Nodes, t \in Threads : UpdTopology(r, t)
  \/ \E r \in Nodes, t \in Threads : UpdNeighbor(r, t)

\* Steps of disabling a link.
DisableWork ==
  \/ \E r \in Nodes, t \in Threads : UpdInfLock(r, t)
  \/ \E r \in Nodes : DisLock(r)
  \/ \E r \in Nodes : DisRemove(r)
  \/ \E r \in Nodes : DisableLock(r)

\* Steps of a crash and of its notification.
CrashWork ==
  \/ \E r \in Nodes : CrashLock(r)
  \/ \E r \in Nodes : CrashStop(r)
  \/ \E r \in Nodes : Exit(r)

\* T3 with one operator command among disable, crash, step, an infinite
\* update and an update of a router's link to itself, and periodic rounds.
Init ==
  InitWith(T3Links, [ticks |-> MaxTicks, rounds |-> MaxTicks, cmds |-> MaxCmds,
                     missed |-> 0, active |-> MaxActive, tickbusy |-> TickBusy])

Next ==
  \/ \E r \in Nodes : Tick(r)
  \/ \E r, a, b \in Nodes : CmdUpdate(r, a, b, Inf)
  \/ \E r, n \in Nodes : CmdDisable(r, n)
  \/ \E r \in Nodes : CmdStep(r)
  \/ \E r \in Nodes : CmdCrash(r)
  \/ AdvertWork
  \/ RecomputeWork
  \/ DisableWork
  \/ CrashWork

Spec == Init /\ [][Next]_vars

\* ------------------------------------------------- one finite update on T3

\* Costs an operator gives to a finite `update`.
UpdateCosts == {1}

\* T3 with one finite `update a b c`, on any pair of nodes, at any router.
UpdInit ==
  InitWith(T3Links, [ticks |-> 0, rounds |-> 0, cmds |-> MaxCmds,
                     missed |-> 0, active |-> MaxActive, tickbusy |-> TickBusy])

UpdNext ==
  \/ \E r, a, b \in Nodes, c \in UpdateCosts : CmdUpdate(r, a, b, c)
  \/ \E r \in Nodes, t \in Threads : SendNext(r, t)
  \/ \E r \in Nodes : Receive(r)
  \/ RecomputeWork
  \/ UpdateWork

UpdSpec == UpdInit /\ [][UpdNext]_vars

\* ------------------------------------------ a sequence of updates on T3

\* Commands the operator types one after another, each after the network
\* has come to rest.
SeqCmds == 3

\* Costs given to link (1,3) by the successive updates.
SeqCosts == {1, 5}

SeqInit ==
  InitWith(T3Links, [ticks |-> 0, rounds |-> 0, cmds |-> SeqCmds, missed |-> 0,
                     active |-> MaxActive, tickbusy |-> TickBusy])

\* `update 1 3 c` typed at router 1 while the network is at rest.
SeqUpdate(c) == Quiet /\ CmdUpdate(1, 1, 3, c)

SeqNext ==
  \/ \E c \in SeqCosts : SeqUpdate(c)
  \/ \E r \in Nodes, t \in Threads : SendNext(r, t)
  \/ \E r \in Nodes : Receive(r)
  \/ RecomputeWork
  \/ UpdateWork

SeqSpec == SeqInit /\ [][SeqNext]_vars

\* ------------------------------------------------- the line 1 - 2 - 3

\* The line 1 - 2 - 3, where node 3's only link is (2,3), with one `disable`
\* and periodic rounds.
LineInit ==
  InitWith(LineLinks, [ticks |-> MaxTicks, rounds |-> MaxTicks, cmds |-> MaxCmds,
                       missed |-> 0, active |-> MaxActive, tickbusy |-> TickBusy])

LineNext ==
  \/ \E r \in Nodes : Tick(r)
  \/ \E r, n \in Nodes : CmdDisable(r, n)
  \/ AdvertWork
  \/ RecomputeWork
  \/ \E r \in Nodes : DisLock(r)
  \/ \E r \in Nodes : DisRemove(r)
  \/ \E r \in Nodes : DisableLock(r)

LineSpec == LineInit /\ [][LineNext]_vars

\* ------------------------------------------------- a silent failure on T3

\* Advertisement intervals a neighbor may miss before it is declared failed.
K == 3

\* T3 where one router's process may be killed, and K periodic rounds at
\* every router.
KillInit ==
  InitWith(T3Links, [ticks |-> K, rounds |-> K * Len(NodeSeq), cmds |-> MaxCmds,
                     missed |-> K, active |-> MaxActive, tickbusy |-> TickBusy])

KillNext ==
  \/ \E r \in Nodes : Tick(r)
  \/ \E r \in Nodes : Kill(r)
  \/ AdvertWork

KillSpec == KillInit /\ [][KillNext]_vars

\* ------------------------------------------ RouterServer.py (UDP variant)

\* Datagrams a RouterServer.py listener counts before the model stops it.
MaxDatagrams == 4

\* Datagrams that leave the routing table alone: one whose (ip, port) is no
\* neighbor's, and one whose first field is not a number.
Datagrams == {"unknown", "malformed"}

\* RouterServer.py, listen_for_updates (lines 74-86): the datagram is
\* processed and then counted. process_update_message returns at line 136
\* for an unknown sender; int(parts[0]) raises ValueError on a malformed
\* datagram, which `except socket.error` does not catch, so the listener
\* thread ends before the count.
UdpReceive(r, d) ==
  /\ udp[r].running
  /\ udp[r].listening
  /\ udp[r].packet_counter < MaxDatagrams
  /\ udp' = [udp EXCEPT ![r] =
               IF d = "malformed" THEN [@ EXCEPT !.listening = FALSE]
               ELSE [@ EXCEPT !.packet_counter = @ + 1]]
  /\ UNCHANGED <<topology, neighbors, routing_table, next_hop, processed_updates,
                 disabled_links, number_of_packets_received, running, alive,
                 lock, inbox, th, ticks, cmds, missed, last, lost, limit, rs, ar, hm>>

\* RouterServer.py, packets (lines 181-184): the counter is printed and set
\* to 0.
UdpPackets(r) ==
  /\ udp[r].running
  /\ udp' = [udp EXCEPT ![r].packet_counter = 0]
  /\ UNCHANGED <<topology, neighbors, routing_table, next_hop, processed_updates,
                 disabled_links, number_of_packets_received, running, alive,
                 lock, inbox, th, ticks, cmds, missed, last, lost, limit, rs, ar, hm>>

\* RouterServer.py, handle_commands (lines 237-238): `exit` stops the server.
UdpExit(r) ==
  /\ udp[r].running
  /\ udp' = [udp EXCEPT ![r].running = FALSE]
  /\ UNCHANGED <<topology, neighbors, routing_table, next_hop, processed_updates,
                 disabled_links, number_of_packets_received, running, alive,
                 lock, inbox, th, ticks, cmds, missed, last, lost, limit, rs, ar, hm>>

UdpInit ==
  InitWith(T3Links, [ticks |-> 0, rounds |-> 0, cmds |-> 0, missed |-> 0,
                     active |-> MaxActive, tickbusy |-> TickBusy])

UdpNext ==
  \/ \E r \in Nodes, d \in Datagrams : UdpReceive(r, d)
  \/ \E r \in Nodes : UdpPackets(r)
  \/ \E r \in Nodes : UdpExit(r)

UdpSpec == UdpInit /\ [][UdpNext]_vars

\* ------------------------------------------------- foreign frames on T3

\* A node id that is in no topology file.
Stranger == 9

\* Frames a peer other than a router of the network may send: a blank frame,
\* text that is not JSON, a JSON object with an unknown command, an
\* update_topology without its fields, a routing table from a sender id
\* outside the node table, and routing tables of senders 2 and 3 that name a
\* destination outside it.
Frames ==
  {Msg("empty", 0, 0, 0, 0, 0, <<>>),
   Msg("garbage", 0, 0, 0, 0, 0, <<>>),
   Msg("unknown", 0, 0, 0, 0, 0, <<>>),
   Msg("upd_bad", 0, 0, 0, 0, 0, <<>>),
   Msg("adv", Stranger, 0, 0, 0, 0, <<(<<Stranger, 0>>), (<<1, 1>>)>>),
   Msg("adv", 2, 0, 0, 0, 0, <<(<<2, 0>>), (<<Stranger, 1>>)>>),
   Msg("adv", 3, 0, 0, 0, 0, <<(<<3, 0>>), (<<Stranger, 1>>)>>)}

\* A peer connects to router r's listener and sends frame f.
Inject(r, f) ==
  /\ cmds < limit.cmds
  /\ Active = 0
  /\ Accepts(r)
  /\ inbox' = Deliver(r, f)
  /\ cmds' = cmds + 1
  /\ last' = <<"frame", r, f.id, 0, 0>>
  /\ UNCHANGED <<topology, neighbors, routing_table, next_hop, processed_updates,
                 disabled_links, number_of_packets_received, running, alive,
                 lock, th, ticks, missed, lost, limit, udp, rs, ar, hm>>

\* Frames given to the network.
MaxFrames == 2

FrameInit ==
  InitWith(T3Links, [ticks |-> 0, rounds |-> 0, cmds |-> MaxFrames, missed |-> 0,
                     active |-> MaxActive, tickbusy |-> TickBusy])

FrameNext ==
  \/ \E r \in Nodes, f \in Frames : Inject(r, f)
  \/ AdvertWork

FrameSpec == FrameInit /\ [][FrameNext]_vars

\* ------------------------------------------------ quiet network with a tie

\* Link lines of a topology in which node 1 reaches node 3 at cost 4 both
\* over its own link and through node 2: (1,2,2), (2,3,2), (1,3,4).
TieLinks == <<(<<1, 2, 2>>), (<<2, 3, 2>>), (<<1, 3, 4>>)>>

\* The tie topology with no operator: periodic rounds and their deliveries.
TieInit ==
  InitWith(TieLinks, [ticks |-> QuietTicks, rounds |-> QuietTicks * Len(NodeSeq),
                      cmds |-> 0, missed |-> 0, active |-> MaxActive,
                      tickbusy |-> QuietBusy])

TieNext ==
  \/ \E r \in Nodes : Tick(r)
  \/ \E r \in Nodes, t \in Threads : SendNext(r, t)
  \/ \E r \in Nodes : Receive(r)
  \/ \E r \in Nodes : AdvLock(r)

TieSpec == TieInit /\ [][TieNext]_vars

\* ------------------------------------- operator commands with stray ids

\* Commands the operator types at router 1 one after another, each after
\* the network has come to rest.
StrayCmds == 2

\* The cost of the finite updates.
StrayCost == 4

\* Endpoint pairs of the `update` commands: the link (2,3), not incident to
\* router 1, and pairs naming id 9, which is not in the node table.
StrayPairs == {<<2, 3>>, <<1, Stranger>>, <<2, Stranger>>}

\* Lines 603-605, 609-611, 621-623 and 632-636: a blank line is skipped;
\* `display`, `packets`, an unknown command, a wrong argument count and a
\* non-numeric argument (ValueError) print and return to the prompt.
CmdPrint(r) ==
  /\ CanCommand(r)
  /\ cmds' = cmds + 1
  /\ last' = <<"print", r, 0, 0, 0>>
  /\ UNCHANGED <<topology, neighbors, routing_table, next_hop, processed_updates,
                 disabled_links, number_of_packets_received, running, alive,
                 lock, inbox, th, ticks, missed, lost, limit, udp, rs, ar, hm>>

StrayInit ==
  InitWith(T3Links, [ticks |-> 0, rounds |-> 0, cmds |-> StrayCmds, missed |-> 0,
                     active |-> MaxActive, tickbusy |-> TickBusy])

\* `update a b 4` typed at router 1 while the network is at rest.
StrayUpdate(p) == Quiet /\ CmdUpdate(1, p[1], p[2], StrayCost)

\* `disable n` typed at router 1 while the network is at rest.
StrayDisable(n) == Quiet /\ CmdDisable(1, n)

StrayPrint == Quiet /\ CmdPrint(1)

StrayNext ==
  \/ \E p \in StrayPairs : StrayUpdate(p)
  \/ \E n \in Nodes \cup {Stranger} : StrayDisable(n)
  \/ StrayPrint
  \/ \E r \in Nodes, t \in Threads : SendNext(r, t)
  \/ \E r \in Nodes : Receive(r)
  \/ RecomputeWork
  \/ UpdateWork
  \/ \E r \in Nodes : DisLock(r)
  \/ \E r \in Nodes : DisRemove(r)
  \/ \E r \in Nodes : DisableLock(r)

StraySpec == StrayInit /\ [][StrayNext]_vars

\* ---------------------------------------- foreign control messages on T3

\* Control messages a peer may send that name id 9, which is not in the node
\* table: update_topology for link (2,9) at cost 4 and disable_link for
\* link (2,9), both with origin 9.
CtlFrames ==
  {Msg("upd", 0, 2, Stranger, StrayCost, Stranger, <<>>),
   Msg("dis", 0, 2, Stranger, 0, Stranger, <<>>)}

\* Control frames given to the network.
MaxCtl == 1

CtlInit ==
  InitWith(T3Links, [ticks |-> 0, rounds |-> 0, cmds |-> MaxCtl, missed |-> 0,
                     active |-> MaxActive, tickbusy |-> TickBusy])

CtlNext ==
  \/ \E r \in Nodes, f \in CtlFrames : Inject(r, f)
  \/ \E r \in Nodes, t \in Threads : SendNext(r, t)
  \/ \E r \in Nodes : Receive(r)
  \/ RecomputeWork
  \/ UpdateWork
  \/ \E r \in Nodes, t \in Threads : UpdInfLock(r, t)
  \/ \E r \in Nodes : DisableLock(r)

CtlSpec == CtlInit /\ [][CtlNext]_vars

\* ------------------------------------ two advertisements at router 1 (T3)

\* The routing table router 2 advertises once its link to 3 costs 1, and the
\* one router 3 advertises once it has a route of cost 1 to destination 9.
AdvFrom2 == Msg("adv", 2, 0, 0, 0, 0, <<(<<1, 2>>), (<<2, 0>>), (<<3, 1>>)>>)

AdvFrom3 ==
  Msg("adv", 3, 0, 0, 0, 0, <<(<<1, 5>>), (<<2, 3>>), (<<3, 0>>), (<<Stranger, 1>>)>>)

OrderFrames == {AdvFrom2, AdvFrom3}

\* The advertisement f reaches router 1's listener, each one once.
Arrive(f) ==
  /\ IF cmds = 0 THEN TRUE ELSE last[3] # f.id
  /\ Inject(1, f)

OrderInit ==
  InitWith(T3Links, [ticks |-> 0, rounds |-> 0, cmds |-> Cardinality(OrderFrames),
                     missed |-> 0, active |-> MaxActive, tickbusy |-> TickBusy])

OrderNext ==
  \/ \E f \in OrderFrames : Arrive(f)
  \/ AdvertWork

OrderSpec == OrderInit /\ [][OrderNext]_vars

\* ------------------------------------------- an update with a negative cost

\* The cost of the command `update 1 3 -1`.
NegCost == -1

NegInit ==
  InitWith(T3Links, [ticks |-> 0, rounds |-> 0, cmds |-> MaxCmds, missed |-> 0,
                     active |-> MaxActive, tickbusy |-> TickBusy])

\* `update 1 3 -1` typed at router 1: float("-1") is accepted.
NegUpdate == CmdUpdate(1, 1, 3, NegCost)

NegNext ==
  \/ NegUpdate
  \/ \E r \in Nodes, t \in Threads : SendNext(r, t)
  \/ \E r \in Nodes : Receive(r)
  \/ RecomputeWork
  \/ UpdateWork

NegSpec == NegInit /\ [][NegNext]_vars

\* ------------------------------------- disabling and re-enabling link (1,3)

\* Commands the operator types at router 1 one after another, each after
\* the network has come to rest.
ReCmds == 3

\* The cost of the finite `update 1 3 4`.
ReCost == 4

ReInit ==
  InitWith(T3Links, [ticks |-> 0, rounds |-> 0, cmds |-> ReCmds, missed |-> 0,
                     active |-> MaxActive, tickbusy |-> TickBusy])

\* `update 1 3 4` typed at router 1 while the network is at rest.
ReUpdate == Quiet /\ CmdUpdate(1, 1, 3, ReCost)

\* `disable 3` typed at router 1 while the network is at rest.
ReDisable == Quiet /\ CmdDisable(1, 3)

ReNext ==
  \/ ReUpdate
  \/ ReDisable
  \/ \E r \in Nodes, t \in Threads : SendNext(r, t)
  \/ \E r \in Nodes : Receive(r)
  \/ RecomputeWork
  \/ UpdateWork
  \/ DisableWork

ReSpec == ReInit /\ [][ReNext]_vars

\* --------------------------- RouterServer.py, distance vectors on T3

\* Lines 91-94: every route to a server that is neither this one nor a
\* neighbor is reset, over the rows in order.
RECURSIVE RsReset(_, _, _, _)
RsReset(rt, i, nb, me) ==
  IF i > Len(rt) THEN rt
  ELSE RsReset(IF rt[i][1] # me /\ ~DHas(nb, rt[i][1])
               THEN DSet(rt, rt[i][1], Route(None, Inf)) ELSE rt,
               i + 1, nb, me)

\* Lines 101-111: the best neighbor, over the neighbors in order; the sum is
\* the neighbor's link cost plus this server's own stored cost to it.
RECURSIVE RsBest(_, _, _)
RsBest(nb, rt, best) ==
  IF nb = <<>> THEN best
  ELSE LET total_cost == IF DHas(rt, nb[1][1])
                         THEN Plus(nb[1][2], DGet(rt, nb[1][1]).cost)
                         ELSE Inf
       IN  RsBest(Tail(nb), rt,
                  IF total_cost < best.cost THEN Route(nb[1][1], total_cost)
                  ELSE best)

\* Lines 97-114: every destination but the server itself, over the rows in
\* order, each reading the rows as the earlier ones left them.
RECURSIVE RsRoutes(_, _, _, _)
RsRoutes(rt, i, nb, me) ==
  IF i > Len(rt) THEN rt
  ELSE LET best == RsBest(nb, rt, Route(None, Inf))
       IN  RsRoutes(IF rt[i][1] # me /\ best.cost < Inf
                    THEN DSet(rt, rt[i][1], best) ELSE rt,
                    i + 1, nb, me)

\* recalculate_routing_table (lines 88-117).
recalculate_routing_table(rt, nb, me) ==
  RsRoutes(RsReset(rt, 1, nb, me), 1, nb, me)

\* Lines 141-158 over the entries <<dest, next hop, cost>> of a vector;
\* sender_cost was read once at line 138.
RECURSIVE RsEntries(_, _, _, _, _, _)
RsEntries(es, rt, me, sender, sender_cost, updated) ==
  IF es = <<>> THEN [routing_table |-> rt, updated |-> updated]
  ELSE
    LET dest == es[1][1]
        cost_from_sender == es[1][3]
        new_cost == Plus(sender_cost, cost_from_sender)
    IN  IF dest = sender
        THEN RsEntries(Tail(es), rt, me, sender, sender_cost, updated)
        ELSE IF dest = me
        THEN IF DGet(rt, sender).cost # cost_from_sender
             THEN RsEntries(Tail(es), DSet(rt, sender, Route(sender, cost_from_sender)),
                            me, sender, sender_cost, TRUE)
             ELSE RsEntries(Tail(es), rt, me, sender, sender_cost, updated)
        ELSE IF ~DHas(rt, dest) \/ new_cost < DGet(rt, dest).cost
        THEN RsEntries(Tail(es), DSet(rt, dest, Route(sender, new_cost)),
                       me, sender, sender_cost, TRUE)
        ELSE RsEntries(Tail(es), rt, me, sender, sender_cost, updated)

\* process_update_message (lines 119-164) on a vector whose (ip, port) are
\* those of server v.sender: dropped when that is no neighbor, otherwise
\* applied, and a changed table is recalculated.
process_update_message(st, me, v) ==
  IF ~DHas(st.neighbors, v.sender)
  THEN [st EXCEPT !.recalculated = FALSE, !.vectors = @ + 1]
  ELSE LET res == RsEntries(v.entries, st.routing_table, me, v.sender,
                            DGet(st.routing_table, v.sender).cost, FALSE)
       IN  [st EXCEPT
              !.routing_table = IF res.updated
                                THEN recalculate_routing_table(res.routing_table,
                                                               st.neighbors, me)
                                ELSE res.routing_table,
              !.heard = DSet(@, v.sender, v.entries),
              !.recalculated = res.updated,
              !.vectors = @ + 1]

\* Vectors a RouterServer.py server processes before the model stops it.
MaxVectors == 3

\* create_update_message (lines 67-72) of a server whose table holds cost
\* c1 to server 1, c2 to 2 and c3 to 3, all direct.
Vector(sender, c1, c2, c3) ==
  [sender |-> sender, entries |-> <<(<<1, 1, c1>>), (<<2, 2, c2>>), (<<3, 3, c3>>)>>]

\* The vectors of T3's servers 2 and 3: their direct costs, and their
\* shortest-path costs.
Vectors ==
  {Vector(2, 2, 0, 3), Vector(3, 7, 3, 0), Vector(3, 5, 3, 0)}

\* A datagram from a server arrives at server r.
RsReceive(r, v) ==
  /\ rs[r].vectors < MaxVectors
  /\ rs' = [rs EXCEPT ![r] = process_update_message(@, r, v)]
  /\ UNCHANGED <<topology, neighbors, routing_table, next_hop, processed_updates,
                 disabled_links, number_of_packets_received, running, alive,
                 lock, inbox, th, ticks, cmds, missed, last, lost, limit, udp,
                 ar, hm>>

RsInit ==
  InitWith(T3Links, [ticks |-> 0, rounds |-> 0, cmds |-> 0, missed |-> 0,
                     active |-> MaxActive, tickbusy |-> TickBusy])

RsNext == \E r \in Nodes, v \in Vectors : RsReceive(r, v)

RsSpec == RsInit /\ [][RsNext]_vars

\* ------------------------------------------- one flooded command on T3

\* The links an `update` names: router 1's own two, and link (2,3).
FloodLinks == {<<1, 2>>, <<1, 3>>, <<2, 3>>}

\* T3 with one `update` (of any link, finite or infinite) or `disable`
\* typed at router 1, and no periodic round.
FloodInit ==
  InitWith(T3Links, [ticks |-> 0, rounds |-> 0, cmds |-> MaxCmds, missed |-> 0,
                     active |-> MaxActive, tickbusy |-> TickBusy])

FloodNext ==
  \/ \E l \in FloodLinks, c \in UpdateCosts \cup {Inf} : CmdUpdate(1, l[1], l[2], c)
  \/ \E n \in Nodes : CmdDisable(1, n)
  \/ \E r \in Nodes, t \in Threads : SendNext(r, t)
  \/ \E r \in Nodes : Receive(r)
  \/ RecomputeWork
  \/ UpdateWork
  \/ DisableWork

\* A thread is at its recomputation holding the lock.
RelaxReady ==
  \E r \in Nodes, t \in Threads :
    alive[r] /\ th[r][t].pc = "rc_relax" /\ lock[r] = t

\* A thread is about to write a link cost and the lock is free.
TopologyReady ==
  \E r \in Nodes, t \in Threads :
    alive[r] /\ th[r][t].pc = "upd_l1" /\ lock[r] = "free"

\* The threads are scheduled: a step that stays possible is taken. For the
\* two steps RcRelax and UpdTopology weak fairness is written out, with
\* RelaxReady and TopologyReady stating when they are possible.
FloodSpec ==
  /\ FloodInit
  /\ [][FloodNext]_vars
  /\ WF_vars(\E r \in Nodes : Receive(r))
  /\ WF_vars(\E r \in Nodes, t \in Threads : SendNext(r, t))
  /\ WF_vars(\E r \in Nodes, t \in Threads : RcReset(r, t))
  /\ WF_vars(\E r \in Nodes, t \in Threads : UpdNeighbor(r, t))
  /\ WF_vars(DisableWork)
  /\ ([]<>~RelaxReady \/ []<><<\E r \in Nodes, t \in Threads : RcRelax(r, t)>>_vars)
  /\ ([]<>~TopologyReady
        \/ []<><<\E r \in Nodes, t \in Threads : UpdTopology(r, t)>>_vars)

\* ------------------------------------------- A/router.py, one update on T3

\* `update` notifications a router sends before the model stops it.
MaxNotes == 3

\* A/router.py, step (lines 181-191): the routing table goes to every
\* neighbor, in the order of self.neighbors.
RECURSIVE ArStep(_, _, _)
ArStep(box, nb, m) ==
  IF nb = <<>> THEN box
  ELSE ArStep([box EXCEPT ![nb[1][1]].inbox = Append(@, m)], Tail(nb), m)

ArAdvert(st, me) == Msg("adv", me, 0, 0, 0, 0, EncodeTable(st.routing_table))

\* A/router.py, update (lines 121-147) at router me, on the processes box:
\* when the link is me's own and its other end a neighbor, the cost is
\* written, the neighbor is notified (notify_neighbor_update, lines 149-170)
\* and step() runs.
ArApply(box, me, server1_id, server2_id, new_cost) ==
  LET neighbor_id == IF server1_id = me THEN server2_id ELSE server1_id
      st == [box[me] EXCEPT
               !.neighbors = DSet(@, neighbor_id, new_cost),
               !.routing_table = FSet(@, neighbor_id, new_cost),
               !.next_hop = FSet(@, neighbor_id, neighbor_id),
               !.notified = @ + 1]
      note == Msg("upd", 0, server1_id, server2_id, new_cost, 0, <<>>)
      told == [box EXCEPT ![me] = st,
                          ![neighbor_id].inbox = Append(@, note)]
  IN  IF (server1_id = me \/ server2_id = me) /\ DHas(box[me].neighbors, neighbor_id)
      THEN ArStep(told, st.neighbors, ArAdvert(st, me))
      ELSE box

\* A/router.py, process_message (lines 79-119) on the first waiting
\* message: an `update` command goes to update(); a routing table is
\* applied as in dv.py (the loop of lines 100-113 is that of dv.py's lines
\* 314-328) and a changed table is advertised.
ArHandle(box, me) ==
  LET m == Head(box[me].inbox)
      rest == [box EXCEPT ![me].inbox = Tail(@)]
      res == ApplyVector(m.table, box[me].routing_table, box[me].next_hop,
                         me, m.id, FALSE)
      st == [rest[me] EXCEPT !.routing_table = res.rt, !.next_hop = res.nh]
  IN  IF m.kind = "upd" THEN ArApply(rest, me, m.s1, m.s2, m.cost)
      ELSE IF res.updated
      THEN ArStep([rest EXCEPT ![me] = st], st.neighbors, ArAdvert(st, me))
      ELSE [rest EXCEPT ![me] = st]

\* `update a b c` typed at router r of the A/router.py network.
ArUpdate(r, a, b, c) ==
  /\ cmds < limit.cmds
  /\ ar' = ArApply(ar, r, a, b, c)
  /\ cmds' = cmds + 1
  /\ last' = <<"update", r, a, b, c>>
  /\ UNCHANGED <<topology, neighbors, routing_table, next_hop, processed_updates,
                 disabled_links, number_of_packets_received, running, alive,
                 lock, inbox, th, ticks, missed, lost, limit, udp, rs, hm>>

\* Router r's listener accepts its next connection and handles the message.
ArReceive(r) ==
  /\ ar[r].inbox # <<>>
  /\ ar[r].notified < MaxNotes
  /\ ar' = ArHandle(ar, r)
  /\ UNCHANGED <<topology, neighbors, routing_table, next_hop, processed_updates,
                 disabled_links, number_of_packets_received, running, alive,
                 lock, inbox, th, ticks, cmds, missed, last, lost, limit, udp,
                 rs, hm>>

ArInit ==
  InitWith(T3Links, [ticks |-> 0, rounds |-> 0, cmds |-> MaxCmds, missed |-> 0,
                     active |-> MaxActive, tickbusy |-> TickBusy])

ArNext ==
  \/ \E r, a, b \in Nodes, c \in UpdateCosts : ArUpdate(r, a, b, c)
  \/ \E r \in Nodes : ArReceive(r)

ArSpec == ArInit /\ [][ArNext]_vars

\* ------------------------------------------------- a crash on the line

\* Periodic rounds each survivor runs after the crash.
GoneTicks == 2

\* The line 1 - 2 - 3 with one `crash`, typed at any router, followed by
\* periodic rounds at the survivors.
GoneInit ==
  InitWith(LineLinks, [ticks |-> GoneTicks, rounds |-> GoneTicks * Len(NodeSeq),
                       cmds |-> MaxCmds, missed |-> 0, active |-> MaxActive,
                       tickbusy |-> TickBusy])

\* A periodic round that begins after the crash command.
GoneTick(r) == cmds = MaxCmds /\ Tick(r)

GoneNext ==
  \/ \E r \in Nodes : CmdCrash(r)
  \/ \E r \in Nodes : GoneTick(r)
  \/ AdvertWork
  \/ RecomputeWork
  \/ CrashWork

GoneSpec == GoneInit /\ [][GoneNext]_vars

\* ------------------------------------------- test.py, the health monitor

\* Health-check rounds run in all, over the three monitors.
MaxRounds == 3

\* test.py, mark_as_crashed (lines 107-120): the node's route goes to
\* infinity with no next hop, the node leaves neighbors, and every route
\* whose next hop it was is invalidated.
mark_as_crashed(st, neighbor_id) ==
  LET nh1 == [st.next_hop EXCEPT ![neighbor_id] = None]
      rt1 == [st.routing_table EXCEPT ![neighbor_id] = Inf]
  IN  [st EXCEPT
         !.routing_table = [d \in DOMAIN rt1 |->
                              IF nh1[d] = neighbor_id THEN Inf ELSE rt1[d]],
         !.next_hop = [d \in DOMAIN nh1 |->
                         IF nh1[d] = neighbor_id THEN None ELSE nh1[d]],
         !.neighbors = @ \ {neighbor_id}]

\* test.py, get_initial_cost_to_neighbor (lines 148-154): the node's current
\* entry of routing_table, infinity for an id that is not in the node table.
get_initial_cost_to_neighbor(st, neighbor_id) ==
  IF neighbor_id \in Nodes
  THEN FGet(st.routing_table, neighbor_id, Inf)
  ELSE Inf

\* test.py, mark_as_reactivated (lines 128-136): the node gets the cost
\* get_initial_cost_to_neighbor returns, itself as next hop, and joins
\* neighbors.
mark_as_reactivated(st, neighbor_id) ==
  [st EXCEPT
     !.routing_table = FSet(@, neighbor_id, get_initial_cost_to_neighbor(st, neighbor_id)),
     !.next_hop = FSet(@, neighbor_id, neighbor_id),
     !.neighbors = @ \cup {neighbor_id}]

\* test.py, get_neighbor_cost_to_dest (lines 185-189): this router's own
\* cost to dest_id, for a node in neighbors.
get_neighbor_cost_to_dest(st, neighbor_id, dest_id) ==
  IF neighbor_id \notin st.neighbors THEN Inf
  ELSE FGet(st.routing_table, dest_id, Inf)

\* Lines 163-173: the neighbors whose total is defined, the least total and
\* the first neighbor (the set of small ids is walked in ascending order)
\* that attains it.
HmTotal(st, n, dest_id) ==
  Plus(FGet(st.routing_table, n, Inf), get_neighbor_cost_to_dest(st, n, dest_id))

HmBest(st, dest_id) ==
  LET usable == {n \in st.neighbors : HmTotal(st, n, dest_id) # Inf}
  IN  IF usable = {} THEN [cost |-> Inf, hop |-> None]
      ELSE LET m == CHOOSE n \in usable :
                      \A k \in usable :
                        \/ HmTotal(st, n, dest_id) < HmTotal(st, k, dest_id)
                        \/ (HmTotal(st, n, dest_id) = HmTotal(st, k, dest_id) /\ n <= k)
           IN  [cost |-> HmTotal(st, m, dest_id), hop |-> m]

\* test.py, recalculate_routes (lines 160-177): the destinations are taken in
\* the order of the keys of routing_table and each one's entry is rewritten
\* in place before the next is computed.
RECURSIVE recalculate_routes(_, _, _)
recalculate_routes(st, me, dests) ==
  IF dests = <<>> THEN st
  ELSE LET dest_id == Head(dests)
           best == HmBest(st, dest_id)
       IN  recalculate_routes(
             IF dest_id = me THEN st
             ELSE [st EXCEPT !.routing_table = FSet(@, dest_id, best.cost),
                             !.next_hop = FSet(@, dest_id, best.hop)],
             me, Tail(dests))

\* The rounds the monitors of the routers `ids` have completed.
RECURSIVE HmRounds(_)
HmRounds(ids) ==
  IF ids = <<>> THEN 0 ELSE hm[Head(ids)].rounds + HmRounds(Tail(ids))

\* health_check, lines 77-80: the sleep ends and a round begins with the
\* list of the keys of routing_table. One round runs at a time.
HmWake(r) ==
  /\ hm[r].i = 0
  /\ \A x \in Nodes : hm[x].i = 0
  /\ HmRounds(NodeSeq) < MaxRounds
  /\ hm' = [hm EXCEPT ![r].i = 1,
                      ![r].changed = FALSE,
                      ![r].rt0 = hm[r].routing_table,
                      ![r].nh0 = hm[r].next_hop]
  /\ UNCHANGED <<topology, neighbors, routing_table, next_hop, processed_updates,
                 disabled_links, number_of_packets_received, running, alive,
                 lock, inbox, th, ticks, cmds, missed, last, lost, limit, udp,
                 rs, ar>>

\* health_check, lines 80-96: the next key is probed. The router itself is
\* skipped; a node that answers is reactivated when its cost is infinity; a
\* node that does not answer is marked as crashed.
HmProbe(r, answers) ==
  LET st == hm[r]
      neighbor_id == NodeSeq[st.i]
      after == IF neighbor_id = r THEN st
               ELSE IF answers
                    THEN IF st.routing_table[neighbor_id] = Inf
                         THEN mark_as_reactivated(st, neighbor_id)
                         ELSE st
                    ELSE mark_as_crashed(st, neighbor_id)
  IN
  /\ st.i \in 1..Len(NodeSeq)
  /\ neighbor_id = r => answers
  /\ hm' = [hm EXCEPT ![r] =
              [after EXCEPT
                 !.i = st.i + 1,
                 !.down = IF neighbor_id = r THEN @
                          ELSE IF answers THEN @ \ {neighbor_id}
                          ELSE @ \cup {neighbor_id},
                 !.changed = IF neighbor_id = r THEN @
                             ELSE @ \/ (answers = (neighbor_id \in st.down))]]
  /\ UNCHANGED <<topology, neighbors, routing_table, next_hop, processed_updates,
                 disabled_links, number_of_packets_received, running, alive,
                 lock, inbox, th, ticks, cmds, missed, last, lost, limit, udp,
                 rs, ar>>

\* health_check, lines 98-100: the routes are recalculated and the monitor
\* sleeps.
HmRecalculate(r) ==
  /\ hm[r].i = Len(NodeSeq) + 1
  /\ hm' = [hm EXCEPT ![r] =
              [recalculate_routes(hm[r], r, NodeSeq) EXCEPT
                 !.i = 0, !.rounds = @ + 1]]
  /\ UNCHANGED <<topology, neighbors, routing_table, next_hop, processed_updates,
                 disabled_links, number_of_packets_received, running, alive,
                 lock, inbox, th, ticks, cmds, missed, last, lost, limit, udp,
                 rs, ar>>

\* T3 as the health monitors of test.py see it: in each round every probed
\* node either answers or does not.
HmInit ==
  InitWith(T3Links, [ticks |-> 0, rounds |-> 0, cmds |-> 0, missed |-> 0,
                     active |-> MaxActive, tickbusy |-> TickBusy])

HmNext ==
  \/ \E r \in Nodes : HmWake(r)
  \/ \E r \in Nodes, answers \in BOOLEAN : HmProbe(r, answers)
  \/ \E r \in Nodes : HmRecalculate(r)

HmSpec == HmInit /\ [][HmNext]_vars

\* ------------------------------------------------------------------ claims

\* A router in normal operation: started, not crashed, not crashing.
Up(r) == alive[r] /\ running[r] /\ th[r]["cmd"].k # "crash"

\* C3 (S1, initial convergence on T3): once every router has run at least two
\* periodic rounds and every advertisement is handled, node 1 has best
\* {1:0, 2:2, 3:5} and next hops {1:1, 2:2, 3:2}, node 2 has best
\* {1:2, 2:0, 3:3} and next hops {1:1, 2:2, 3:3}, and node 3 has best
\* {1:5, 2:3, 3:0} and next hops {1:2, 2:2, 3:3}.
C3_InitialConvergence ==
  ((\A r \in Nodes : ticks[r] >= 2) /\ Quiet) =>
    /\ routing_table[1] = (1 :> 0 @@ 2 :> 2 @@ 3 :> 5)
    /\ next_hop[1] = (1 :> 1 @@ 2 :> 2 @@ 3 :> 2)
    /\ routing_table[2] = (1 :> 2 @@ 2 :> 0 @@ 3 :> 3)
    /\ next_hop[2] = (1 :> 1 @@ 2 :> 2 @@ 3 :> 3)
    /\ routing_table[3] = (1 :> 5 @@ 2 :> 3 @@ 3 :> 0)
    /\ next_hop[3] = (1 :> 2 @@ 2 :> 2 @@ 3 :> 3)

\* Every router has run two rounds and handled the four advertisements its
\* two neighbors sent it.
C3_Witness ==
  /\ Quiet
  /\ \A r \in Nodes : ticks[r] >= 2 /\ number_of_packets_received[r] = 4

\* C4 (P2, convergence with no commands): no step of the quiet network
\* changes any router's best[] or nextHop[], in any round, and no received
\* advertisement starts a triggered advertisement.
C4_QuietFixedPoint ==
  [][/\ routing_table' = routing_table
     /\ next_hop' = next_hop
     /\ \A r \in Nodes : th'[r]["lis"].pc # "send"]_vars

\* N - 1 = 2 rounds of every router have been delivered and applied.
C4_Witness ==
  /\ \A r \in Nodes : ticks[r] = Len(NodeSeq) - 1 /\ th[r]["per"].pc = "idle"
  /\ \A r \in Nodes : inbox[r] = <<>> /\ th[r]["lis"].pc = "idle"
  /\ \E r \in Nodes : number_of_packets_received[r] >= 2 * (Len(NodeSeq) - 1)

\* C1 (I1): in every state another task can observe (the routing lock is
\* free) of a router in normal operation, best[S] = 0 and nextHop[S] = S.
C1_SelfEntry ==
  \A r \in Nodes :
    (Up(r) /\ lock[r] = "free") =>
      /\ r \in DOMAIN routing_table[r] /\ routing_table[r][r] = 0
      /\ r \in DOMAIN next_hop[r] /\ next_hop[r][r] = r

\* C6 (S2, cost change on T3): once `update 1 3 1`, issued on node 1 in the
\* converged network, and all its messages are handled, node 1 has best
\* {1:0, 2:2, 3:1} with nextHop[3] = 3, node 3 has best {1:1, 2:3, 3:0}, and
\* each of nodes 1 and 3 holds cost 1 for its link to the other.
C6_CostChange ==
  (Quiet /\ cmds = 1 /\ last = <<"update", 1, 1, 3, 1>>) =>
    /\ routing_table[1] = (1 :> 0 @@ 2 :> 2 @@ 3 :> 1)
    /\ next_hop[1][3] = 3
    /\ routing_table[3] = (1 :> 1 @@ 2 :> 3 @@ 3 :> 0)
    /\ DHas(neighbors[1], 3) /\ DGet(neighbors[1], 3) = 1
    /\ DHas(neighbors[3], 1) /\ DGet(neighbors[3], 1) = 1

\* The update was issued on node 1, node 3 applied it from a message, and
\* the network is at rest.
C6_Witness ==
  /\ Quiet
  /\ cmds = 1
  /\ last = <<"update", 1, 1, 3, 1>>
  /\ processed_updates[3] # {}
  /\ TCost(topology[2], 1, 3) = 1

\* The cost router x currently holds for its link to y.
LinkCost(x, y) == IF DHas(neighbors[x], y) THEN DGet(neighbors[x], y) ELSE Inf

\* The cost of walking nextHop hop by hop from cur to d, each router using
\* its own table and its own link cost; Inf when the walk meets a router
\* with no next hop, a router that is down, or a node already visited.
RECURSIVE WalkCost(_, _, _)
WalkCost(cur, d, seen) ==
  IF cur = d THEN 0
  ELSE IF ~alive[cur] \/ d \notin DOMAIN next_hop[cur] THEN Inf
  ELSE LET h == next_hop[cur][d]
       IN  IF h = None \/ h \in seen \/ h \notin Nodes THEN Inf
           ELSE Plus(LinkCost(cur, h), WalkCost(h, d, seen \cup {h}))

\* C2 (P3, sum correctness): when the network is at rest, at every router S
\* in normal operation and for every destination d with best[d] finite,
\* following nextHop from S reaches d along a simple path whose link costs
\* sum to best[d].
C2_SumCorrect ==
  (Quiet /\ \A x \in Nodes : Up(x)) =>
    \A r \in Nodes :
      \A d \in DOMAIN routing_table[r] :
        routing_table[r][d] < Inf => WalkCost(r, d, {r}) = routing_table[r][d]

\* The least cost of a simple path from cur to d over the finite links of
\* the topology view t, avoiding the nodes of seen; Inf when there is none.
RECURSIVE MinOf(_)
MinOf(S) ==
  IF S = {} THEN Inf
  ELSE LET x == CHOOSE y \in S : TRUE
           m == MinOf(S \ {x})
       IN  IF x < m THEN x ELSE m

RECURSIVE PathCost(_, _, _, _)
PathCost(t, cur, d, seen) ==
  IF cur = d THEN 0
  ELSE MinOf({Plus(TCost(t, cur, h), PathCost(t, h, d, seen \cup {h})) :
                h \in {x \in Nodes \ seen : TCost(t, cur, x) < Inf}})

\* Router r has set a link to infinity and is not handling anything.
HasDeadLink(r) ==
  /\ Up(r)
  /\ \A t \in Threads : th[r][t].pc = "idle"
  /\ disabled_links[r] # {} \/ \E x \in Nodes : ~DHas(topology[r], x)

\* C8 (no resurrection of a dead path): a router that has set a link to
\* infinity (disable, infinite update, crash notification) and recomputed
\* keeps best[] equal to the shortest-path cost over the links that are
\* live in its view, whatever advertisements it then receives.
C8_NoResurrection ==
  \A r \in Nodes :
    HasDeadLink(r) =>
      \A d \in Nodes :
        d \in DOMAIN routing_table[r]
        /\ routing_table[r][d] = PathCost(topology[r], r, d, {r})

\* C9 (crash-notify): a neighbor that has applied a crash notification and
\* recomputed then sends an advertisement round to its remaining neighbors:
\* the step that ends the recomputation begins a step().
C9_AdvertiseAfterCrash ==
  [][\A r \in Nodes :
       (/\ th[r]["lis"].pc = "rc_relax"
        /\ th[r]["lis"].k = "crash"
        /\ th'[r]["lis"].pc # "rc_relax")
       => (th'[r]["lis"].pc = "send" /\ th'[r]["lis"].k = "step")]_vars

\* C7 (disable symmetry): after `disable n` has been carried out at router S
\* and all resulting messages are delivered, S no longer lists n as a
\* neighbor and n no longer lists S, also when (S,n) is n's only link.
C7_DisableSymmetry ==
  \A S, n \in Nodes :
    (/\ Quiet
     /\ last = <<"disable", S, n, 0, 0>>
     /\ alive[S] /\ alive[n]
     /\ <<S, n>> \in disabled_links[S])
    => (~DHas(neighbors[S], n) /\ ~DHas(neighbors[n], S))

\* C5 (P5, bidirectional update): once `update a b c` with finite c has been
\* issued and all resulting messages have been delivered, endpoint a's link
\* cost to b and endpoint b's link cost to a both equal c.
C5_Bidirectional ==
  \A r, a, b \in Nodes :
    \A c \in UpdateCosts \cup SeqCosts :
      (/\ Quiet
       /\ last = <<"update", r, a, b, c>>
       /\ a # b
       /\ \A x \in Nodes : alive[x])
      => (LinkCost(a, b) = c /\ LinkCost(b, a) = c)

\* C10 (silent failure): when a neighbor n has stopped without a crash
\* notification and router S has since begun K periodic rounds without an
\* advertisement from n, S has marked n failed: n is no longer a neighbor of
\* S, and best[n] at S is infinite or runs over another path.
C10_SilentFailure ==
  \A S, n \in Nodes :
    (/\ Quiet
     /\ Up(S)
     /\ ~alive[n]
     /\ last = <<"kill", n, 0, 0, 0>>
     /\ missed[S][n] >= K)
    => (/\ ~DHas(neighbors[S], n)
        /\ next_hop[S][n] # n
        /\ \A d \in Nodes : next_hop[S][d] # n)

\* C13 (`packets` only reads the counter): no step, `packets` included,
\* lowers the received-packet counter of a RouterServer.py router.
C13_CounterNeverDecreases ==
  [][\A r \in Nodes : udp'[r].packet_counter >= udp[r].packet_counter]_vars

\* A recognised advertisement or control message from a known sender.
WellFormed(m) ==
  \/ m.kind \in {"adv", "crash"} /\ m.id \in Nodes
  \/ m.kind \in {"upd", "dis"} /\ m.origin \in Nodes

\* C11 (P4, packet counter accuracy): number_of_packets_received grows only
\* when the listener consumes a well-formed message; a frame that is empty,
\* does not parse, carries an unknown command or lacks required fields does
\* not increment it.
C11_CountsWellFormedOnly ==
  [][\A r \in Nodes :
       number_of_packets_received'[r] # number_of_packets_received[r]
       => (inbox[r] # <<>> /\ WellFormed(Head(inbox[r])))]_vars

\* C12 (S6, unknown-sender advertisement): the step that takes from the
\* listener's queue an advertisement whose sender id is not in the node table
\* leaves routing_table, next_hop, neighbors, topology and
\* number_of_packets_received of the router unchanged.
C12_UnknownSenderDropped ==
  [][\A r \in Nodes :
       (/\ inbox[r] # <<>>
        /\ Head(inbox[r]).kind = "adv"
        /\ Head(inbox[r]).id \notin Nodes
        /\ inbox'[r] = Tail(inbox[r]))
       => (/\ routing_table'[r] = routing_table[r]
           /\ next_hop'[r] = next_hop[r]
           /\ neighbors'[r] = neighbors[r]
           /\ topology'[r] = topology[r]
           /\ number_of_packets_received'[r] = number_of_packets_received[r])]_vars

\* The node ids a topology view names.
TopologyIds(t) == DKeys(t) \cup UNION {DKeys(t[i][2]) : i \in 1..Len(t)}

\* C15 (fixed membership): at every running router the destinations of
\* routing_table and next_hop and the node ids of neighbors and of the
\* topology view are ids of the node table loaded at startup.
C15_FixedMembership ==
  \A r \in Nodes :
    Up(r) =>
      /\ DOMAIN routing_table[r] \subseteq Nodes
      /\ DOMAIN next_hop[r] \subseteq Nodes
      /\ DKeys(neighbors[r]) \subseteq Nodes
      /\ TopologyIds(topology[r]) \subseteq Nodes

\* C14 (at-most-once link updates): a router whose listener begins to apply
\* "link (a,b) set to c" has not applied that change before, i.e. its
\* dedup set does not already hold the triple in the other endpoint order
\* (the triple of the message at hand was recorded by this very handler).
C14_AtMostOnce ==
  \A r \in Nodes :
    LET s == th[r]["lis"] IN
    (alive[r] /\ s.k = "upd" /\ s.pc \in {"upd_l1", "upd_inf"} /\ s.a # s.b)
      => <<s.a, s.b, s.c>> \notin processed_updates[r]

\* C16 (infinite cost iff no next hop): whenever a running router's lock is
\* free, every destination d other than the router itself has cost infinity
\* exactly when its next hop is None.
C16_InfIffNoHop ==
  \A r \in Nodes :
    (Up(r) /\ lock[r] = "free") =>
      \A d \in (DOMAIN routing_table[r]) \cap (DOMAIN next_hop[r]) :
        d # r => (routing_table[r][d] = Inf <=> next_hop[r][d] = None)

\* A router that recomputed after a neighbor's crash: the lock is free, one
\* destination is unreachable with no next hop, another is reachable.
C16_Witness ==
  \E r \in Nodes :
    /\ Up(r) /\ lock[r] = "free" /\ th[r]["lis"].pc = "idle"
    /\ \E x \in Nodes : ~alive[x]
    /\ \E d \in Nodes \ {r} : routing_table[r][d] = Inf /\ next_hop[r][d] = None
    /\ \E d \in Nodes \ {r} : routing_table[r][d] < Inf /\ next_hop[r][d] # None

\* C17 (next hop is a current neighbor): whenever a running router's lock is
\* free and a destination d other than the router itself has finite cost,
\* next_hop[d] is a key of the router's neighbors whose stored link cost is
\* finite.
C17_HopIsNeighbor ==
  \A r \in Nodes :
    (Up(r) /\ lock[r] = "free") =>
      \A d \in (DOMAIN routing_table[r]) \cap (DOMAIN next_hop[r]) :
        (d # r /\ routing_table[r][d] < Inf) =>
          /\ DHas(neighbors[r], next_hop[r][d])
          /\ DGet(neighbors[r], next_hop[r][d]) < Inf

\* The cost router r gets for d through neighbor n: its link cost to n plus
\* the cost n itself holds for d.
Via(r, n, d) == Plus(LinkCost(r, n), FGet(routing_table[n], d, Inf))

\* The neighbors of r that give the least cost to d.
BestVia(r, d) ==
  LET nbs == {n \in Nodes : DHas(neighbors[r], n)}
      m == MinOf({Via(r, n, d) : n \in nbs})
  IN  {n \in nbs : m < Inf /\ Via(r, n, d) = m}

\* C18 (deterministic tie-break): once every router has advertised and the
\* network is at rest, a destination d that two or more neighbors of a
\* router give at the same least cost has the lowest-numbered of those
\* neighbors as its next hop.
C18_LowestIdTie ==
  ((\A x \in Nodes : ticks[x] >= 1) /\ Quiet) =>
    \A r \in Nodes : \A d \in Nodes \ {r} :
      (Up(r) /\ Cardinality(BestVia(r, d)) >= 2)
        => next_hop[r][d] = MinOf(BestVia(r, d))

\* C20 (commands return to the command loop): no operator command other
\* than `crash` ends the router: its process stays alive and its command
\* thread does not die of an exception.
C20_CommandLoopSurvives ==
  \A r \in Nodes :
    th[r]["cmd"].k # "crash" => (alive[r] /\ th[r]["cmd"].pc # "dead")

\* C19 (`disable n` on a non-neighbor is a no-op): the step in which a
\* router takes the command `disable n`, n not being a key of its neighbors,
\* leaves its neighbors, topology, disabled_links, routing_table and
\* next_hop as they were, sends no message, and leaves the command thread at
\* the prompt with nothing further to do.
C19_DisableNonNeighborNoOp ==
  [][\A r \in Nodes : \A n \in Nodes \cup {Stranger} :
       (/\ cmds' = cmds + 1
        /\ last' = <<"disable", r, n, 0, 0>>
        /\ ~DHas(neighbors[r], n))
       => (/\ neighbors'[r] = neighbors[r]
           /\ topology'[r] = topology[r]
           /\ disabled_links'[r] = disabled_links[r]
           /\ routing_table'[r] = routing_table[r]
           /\ next_hop'[r] = next_hop[r]
           /\ inbox' = inbox
           /\ th'[r]["cmd"] = IdleT)]_vars

\* Router 1 has taken `disable n` for an n that is not its neighbor, as its
\* only command, and is back at the prompt with no link disabled.
C19_Witness ==
  \E n \in Nodes \cup {Stranger} :
    /\ cmds = 1
    /\ last = <<"disable", 1, n, 0, 0>>
    /\ ~DHas(neighbors[1], n)
    /\ disabled_links[1] = {}
    /\ th[1]["cmd"] = IdleT

\* C21 (control messages naming unknown ids are dropped): while a router's
\* listener handles an update_topology or disable_link message one of whose
\* server ids is not in the node table, the router's topology, neighbors,
\* routing_table and next_hop do not change.
C21_ForeignControlDropped ==
  [][\A r \in Nodes :
       LET s == th[r]["lis"] IN
       (/\ s.pc \in {"upd_l1", "upd_l2", "upd_inf", "ld_lock"}
        /\ (s.a \notin Nodes \/ s.b \notin Nodes))
       => (/\ topology'[r] = topology[r]
           /\ neighbors'[r] = neighbors[r]
           /\ routing_table'[r] = routing_table[r]
           /\ next_hop'[r] = next_hop[r])]_vars

\* C22 (consistent advertisement snapshot): a step() loop of a router sends
\* an advertisement only while no recompute_routing_table of that router is
\* between its reset and the end of its relaxation, i.e. while the router's
\* lock is free.
C22_SnapshotOutsideRecompute ==
  [][\A r \in Nodes : \A t \in Threads :
       (/\ th[r][t].pc = "send"
        /\ th[r][t].k = "step"
        /\ th'[r][t] # th[r][t]
        /\ inbox' # inbox)
       => lock[r] = "free"]_vars

\* C23 (commands are atomic): from the moment an `update` or `disable`
\* command of a router has changed a link cost or the neighbor set until its
\* recompute has completed, the router's periodic advertiser and listener
\* take no step.
C23_CommandAtomic ==
  [][\A r \in Nodes :
       LET s == th[r]["cmd"] IN
       (/\ alive[r]
        /\ s.k \in {"upd", "dis"}
        /\ s.pc \in {"upd_l2", "dis_del", "send", "rc_reset", "rc_relax"})
       => (/\ th'[r]["per"] = th[r]["per"]
           /\ th'[r]["lis"] = th[r]["lis"])]_vars

\* C24 (tasks survive concurrent activity): on a router where `crash` has
\* not been issued, neither the periodic advertiser thread nor the listener
\* thread has ended.
C24_TasksSurvive ==
  \A r \in Nodes :
    Up(r) => (th[r]["per"].pc # "dead" /\ th[r]["lis"].pc # "dead")

\* C25 (no network I/O under the lock): a thread that is inside a loop of
\* send_message calls does not hold its router's lock.
C25_SendOutsideLock ==
  \A r \in Nodes : \A t \in Threads :
    (alive[r] /\ th[r][t].pc = "send") => lock[r] # t

\* A periodic step() has sent to a neighbor and is still in its loop while
\* the command thread of the same router holds the lock in a recompute.
C25_Witness ==
  \E r \in Nodes :
    /\ alive[r]
    /\ th[r]["per"].pc = "send"
    /\ th[r]["per"].i > 1
    /\ th[r]["cmd"].pc = "rc_relax"
    /\ lock[r] = "cmd"

\* C26 (crash is final): once crash() has completed on a router (running is
\* False and the tables are cleared), the router reads no further message
\* from its listener's queue and none of its threads sends a message.
C26_CrashFinal ==
  [][\A r \in Nodes :
       (~running[r] /\ th[r]["cmd"].pc \in {"exit", "done"})
       => (/\ Len(inbox'[r]) >= Len(inbox[r])
           /\ \A t \in Threads :
                (th[r][t].pc = "send" /\ th'[r][t] # th[r][t]) => inbox' = inbox)]_vars

\* Lines 312-328 applied to advertisement m with router 1's tables tb.
Handled(tb, m) == ApplyVector(m.table, tb.rt, tb.nh, 1, m.id, FALSE)

NeighborCosts(r) == {neighbors[r][j][2] : j \in 1..Len(neighbors[r])}

\* The link costs of a router's topology view.
TopologyCosts(r) == {e[3] : e \in {Edges(topology[r])[j] : j \in 1..Len(Edges(topology[r]))}}

\* C28 (costs are never negative): every link cost a router holds in
\* neighbors or topology and every cost of its routing table is at least 0.
C28_NonNegative ==
  \A r \in Nodes :
    /\ \A c \in NeighborCosts(r) \cup TopologyCosts(r) : c >= 0
    /\ \A d \in DOMAIN routing_table[r] : routing_table[r][d] >= 0

\* C29 (re-enable): when router 1 has disabled its link to 3 and its last
\* command is a later `update 1 3 4`, then at rest routers 1 and 3 list each
\* other as neighbors at cost 4, hold cost 4 for the link in their topology
\* views, and router 1 routes to 3 over the link at cost 4.
C29_ReEnable ==
  (/\ Quiet
   /\ last = <<"update", 1, 1, 3, ReCost>>
   /\ <<1, 3>> \in disabled_links[1])
  => (/\ LinkCost(1, 3) = ReCost
      /\ LinkCost(3, 1) = ReCost
      /\ TCost(topology[1], 1, 3) = ReCost
      /\ TCost(topology[3], 3, 1) = ReCost
      /\ routing_table[1][3] = ReCost
      /\ next_hop[1][3] = 3)

\* The record of `disable 3` typed at router 2 as the only command.
Disabled23 == last = <<"disable", 2, 3, 0, 0>> /\ cmds = 1

C32_AdvertMonotone ==
  [][\A r \in Nodes :
       (th[r]["lis"].pc = "adv_lock" /\ th'[r]["lis"] # th[r]["lis"])
       => LET s == th[r]["lis"]
              old == routing_table[r]
              new == routing_table'[r]
              Offer(i) == Plus(FGet(old, s.a, Inf), s.tab[i][2])
          IN  /\ DOMAIN old \subseteq DOMAIN new
              /\ \A d \in DOMAIN new : new[d] <= FGet(old, d, Inf)
              /\ FGet(new, r, Inf) = FGet(old, r, Inf)
              /\ FGet(next_hop'[r], r, None) = FGet(next_hop[r], r, None)
              /\ \A d \in DOMAIN new :
                   (\/ new[d] # FGet(old, d, Inf)
                    \/ FGet(next_hop'[r], d, None) # FGet(next_hop[r], d, None))
                   => \E i \in 1..Len(s.tab) :
                        /\ s.tab[i][1] = d
                        /\ Offer(i) < FGet(old, d, Inf)
                        /\ new[d] = Offer(i)
                        /\ next_hop'[r][d] = s.a
              /\ neighbors'[r] = neighbors[r]
              /\ topology'[r] = topology[r]
              /\ disabled_links'[r] = disabled_links[r]]_vars

\* A listener is advertising the table it has just lowered from a received
\* vector, the sender of which is now the next hop of some destination.
C32_Witness ==
  \E r \in Nodes :
    /\ th[r]["lis"].k = "step"
    /\ th[r]["lis"].pc = "send"
    /\ \E d \in Nodes \ {r} : next_hop[r][d] \notin {d, None}
    /\ \E d \in Nodes \ {r} : routing_table[r][d] < Inf

\* The cost to d that neighbor n last advertised, infinity when n has not
\* been heard or did not name d.
RsView(st, n, d) ==
  IF DHas(st.heard, n) /\ \E i \in 1..Len(DGet(st.heard, n)) : DGet(st.heard, n)[i][1] = d
  THEN LET es == DGet(st.heard, n)
       IN  es[CHOOSE i \in 1..Len(es) : es[i][1] = d][3]
  ELSE Inf

\* Link cost to neighbor n plus n's last advertised cost to d.
RsOffer(st, n, d) == Plus(DGet(st.neighbors, n), RsView(st, n, d))

\* C31 (Bellman-Ford equation in RouterServer.py): after a datagram that
\* ended in recalculate_routing_table, for every destination d other than
\* the server itself the stored cost is the minimum over the neighbors n of
\* (link cost to n + n's last advertised cost to d), infinity when no
\* neighbor offers a finite sum, and the stored next hop is a neighbor
\* achieving that minimum.
C31_BellmanFord ==
  \A r \in Nodes :
    rs[r].recalculated =>
      \A d \in DKeys(rs[r].routing_table) \ {r} :
        LET st == rs[r]
            row == DGet(st.routing_table, d)
            offers == {RsOffer(st, n, d) : n \in DKeys(st.neighbors)}
        IN  /\ \A c \in offers : row.cost <= c
            /\ row.cost = Inf \/ row.cost \in offers
            /\ row.cost < Inf =>
                 /\ DHas(st.neighbors, row.next_hop)
                 /\ RsOffer(st, row.next_hop, d) = row.cost

\* The loop-free paths over the loaded nodes from a to b.
Paths(a, b) ==
  {p \in UNION {[1..k -> Nodes] : k \in 2..Len(NodeSeq)} :
     /\ p[1] = a
     /\ p[Len(p)] = b
     /\ \A i, j \in 1..Len(p) : i # j => p[i] # p[j]}

\* The cost of path p in topology view t: the sum of its links' costs.
RECURSIVE RouteCost(_, _)
RouteCost(t, p) ==
  IF Len(p) < 2 THEN 0
  ELSE Plus(TCost(t, p[1], p[2]), RouteCost(t, Tail(p)))

\* The least path cost from a to b in view t, infinity when no path is finite.
Least(t, a, b) ==
  IF a = b THEN 0
  ELSE LET costs == {RouteCost(t, p) : p \in Paths(a, b)}
       IN  CHOOSE c \in costs : \A x \in costs : c <= x

\* C33 (recompute yields shortest paths): when recompute_routing_table of a
\* running router ends on a topology view that names loaded nodes only, for
\* every loaded node d the cost is the least path
\* cost from the router to d over the finite links of its topology view,
\* infinity with no next hop when there is none, and otherwise the next hop
\* for d is the first hop of a least-cost path.
C33_ShortestPaths ==
  [][\A r \in Nodes, t \in Threads :
       (/\ th[r][t].pc = "rc_relax"
        /\ th'[r][t].pc # "rc_relax"
        /\ running[r]
        /\ TopologyIds(topology[r]) \subseteq Nodes)
       => \A d \in Nodes :
            /\ routing_table'[r][d] = Least(topology[r], r, d)
            /\ d # r /\ routing_table'[r][d] = Inf => next_hop'[r][d] = None
            /\ d # r /\ routing_table'[r][d] < Inf =>
                 \E p \in Paths(r, d) :
                   /\ RouteCost(topology[r], p) = routing_table'[r][d]
                   /\ p[2] = next_hop'[r][d]]_vars

\* A router has recomputed over a view in which one of its own links is at
\* infinity, and reaches the other end of that link through a third node.
C33_Witness ==
  \E r \in Nodes :
    /\ \A t \in Threads : th[r][t].pc \notin {"rc_reset", "rc_relax"}
    /\ running[r]
    /\ \E d \in Nodes \ {r} :
         /\ TCost(topology[r], r, d) = Inf
         /\ routing_table[r][d] < Inf
         /\ routing_table[r][d] = Least(topology[r], r, d)
         /\ next_hop[r][d] \notin {d, None}

\* C34 (flooding terminates): after the single `update` or `disable`
\* command the network comes to rest, with no handler running and no
\* update_topology or disable_link message waiting or in flight.
C34_FloodingTerminates == (cmds = 1) ~> Quiet

\* The flood of a finite update has gone round the cycle and ended: every
\* router has recorded the update and nothing is in flight.
C34_Witness ==
  /\ Quiet
  /\ cmds = 1
  /\ last[1] = "update"
  /\ last[5] # Inf
  /\ \A r \in Nodes : processed_updates[r] # {}

\* The `update` notifications sent in the A/router.py network.
ArNotified == ar[1].notified + ar[2].notified + ar[3].notified

\* Both ends of the link named by the last command hold its cost.
ArApplied ==
  /\ cmds = 1
  /\ last[3] # last[4]
  /\ DHas(ar[last[3]].neighbors, last[4])
  /\ DGet(ar[last[3]].neighbors, last[4]) = last[5]
  /\ DGet(ar[last[4]].neighbors, last[3]) = last[5]

\* C35 (A/router.py, the exchange stops): once both endpoints of the
\* updated link hold the new cost, no further `update` notification is sent.
C35_ExchangeStops == [][ArApplied => ArNotified' = ArNotified]_vars

\* C36 (last update wins): after a sequence of `update 1 3 c` commands typed
\* at router 1, each after the network has come to rest, every router's
\* topology view holds the cost of the last command for link (1,3), in
\* both directions, and so do routers 1 and 3 as their link cost.
C36_LastUpdateWins ==
  \A c \in SeqCosts :
    (Quiet /\ last = <<"update", 1, 1, 3, c>>)
    => /\ \A r \in Nodes : TCost(topology[r], 1, 3) = c /\ TCost(topology[r], 3, 1) = c
       /\ LinkCost(1, 3) = c
       /\ LinkCost(3, 1) = c

\* C37 (disabled_links tracks the topology view): at every router whose lock
\* is free, with the network at rest, a pair (a,b) is in disabled_links
\* exactly when the router's topology view holds infinity for link (a,b).
C37_DisabledTracksView ==
  Quiet =>
    \A r \in Nodes :
      (Up(r) /\ lock[r] = "free") =>
        \A a \in Nodes, b \in Nodes :
          a # b =>
            ((<<a, b>> \in disabled_links[r]) <=> (TCost(topology[r], a, b) = Inf))

\* An advertisement from sender n is at the head of router r's inbox and the
\* listener of r is about to read it.
AdvertDue(r, n) ==
  /\ alive[r]
  /\ th[r]["lis"].pc = "idle"
  /\ inbox[r] # <<>>
  /\ Head(inbox[r]).kind = "adv"
  /\ Head(inbox[r]).id = n

RECURSIVE Through(_, _, _, _)
Through(r, d, c, fuel) ==
  IF fuel = 0 \/ r = d THEN FALSE
  ELSE LET n == FGet(next_hop[r], d, None)
       IN  IF n \notin Nodes THEN FALSE
           ELSE n = c \/ Through(n, d, c, fuel - 1)

\* Router c has crashed, its notifications and every periodic round of the
\* survivors have been delivered, and the network is at rest.
CrashSettled(c) ==
  /\ last = <<"crash", c, 0, 0, 0>>
  /\ ~alive[c]
  /\ Quiet
  /\ \A r \in Nodes \ {c} : ticks[r] = limit.ticks

\* C39 (a crash reaches the whole network): once the crash of c has settled,
\* every surviving router holds infinity as its cost to c and none of its
\* finite routes passes through c.
C39_CrashReachesAll ==
  \A c \in Nodes :
    CrashSettled(c) =>
      \A r \in Nodes \ {c} :
        /\ FGet(routing_table[r], c, Inf) = Inf
        /\ \A d \in Nodes \ {r, c} :
             FGet(routing_table[r], d, Inf) < Inf => ~Through(r, d, c, Len(NodeSeq))

\* The monitor of router r probes node n, which is not r, in this step.
HmProbing(r, n) ==
  /\ hm[r].i \in 1..Len(NodeSeq)
  /\ NodeSeq[hm[r].i] = n
  /\ n # r
  /\ hm'[r].i = hm[r].i + 1

\* mark_as_crashed: a neighbor that does not answer its probe has cost
\* infinity, is out of neighbors and is nobody's next hop.
HmCrashMarked ==
  \A r \in Nodes, n \in Nodes :
    (HmProbing(r, n) /\ n \in hm[r].neighbors /\ n \in hm'[r].down)
    => /\ hm'[r].routing_table[n] = Inf
       /\ n \notin hm'[r].neighbors
       /\ \A d \in Nodes : hm'[r].next_hop[d] # n

\* mark_as_reactivated: a neighbor of the topology file that was marked as
\* crashed and answers again has the cost of the file, and keeps a finite
\* cost when the round ends.
HmReactivated ==
  \A r \in Nodes, n \in Nodes :
    /\ (HmProbing(r, n) /\ n \in hm[r].down /\ n \notin hm'[r].down
          /\ n \in HmLoad(T3Links, r).neighbors)
       => hm'[r].routing_table[n] = HmLoad(T3Links, r).routing_table[n]
    /\ (hm[r].i = Len(NodeSeq) + 1 /\ hm'[r].i = 0
          /\ n \in HmLoad(T3Links, r).neighbors /\ n \notin hm[r].down)
       => hm'[r].routing_table[n] < Inf

\* A round in which every node answered as in the round before leaves the
\* tables as it found them.
HmSteady ==
  \A r \in Nodes :
    (hm[r].i = Len(NodeSeq) + 1 /\ hm'[r].i = 0 /\ ~hm[r].changed)
    => /\ hm'[r].routing_table = hm[r].rt0
       /\ hm'[r].next_hop = hm[r].nh0

\* C40 (failure and recovery in the health monitor of test.py): a neighbor
\* that stops answering is marked as crashed, one that answers again gets
\* back the finite cost of the topology file, and a round with no change of
\* status leaves routing_table and next_hop unchanged.
C40_FailureAndRecovery == [][HmCrashMarked /\ HmReactivated /\ HmSteady]_vars

====
